---- MODULE Spec2Model ----
(***************************************************************************)
(* A model of framecut's detection engine: the device / profile catalog,   *)
(* the rule evaluation of the statistical classifier, the profile          *)
(* detection cascade and the telemetry lookup in the companion SRT file.   *)
(*                                                                         *)
(* Conventions.                                                            *)
(*  - A Python dict is a sequence of <<key, value>> pairs in insertion     *)
(*    order (dicts iterate in that order); see Keys, Has, Get.             *)
(*  - Python's None is the value None below; a Python str is a TLA+ string.*)
(*  - Rule thresholds are written in hundredths (0.80 is 80).  A statistic *)
(*    is a rational <<num, den>> with den > 0, compared by cross           *)
(*    multiplication.                                                      *)
(***************************************************************************)
EXTENDS Integers, Sequences, FiniteSets, TLC

VARIABLES
    devices,            \* DeviceManager.devices, the catalog DEVICES
    tables,             \* BASE_FFMPEG_PARAMS and PROFILE_PARAMS of color_profiles
    properties_cache,   \* VideoAnalyzer._properties_cache: path -> properties
    threads,            \* the calls in progress on the shared analyzer
    video,              \* the clip on disk, as the external tools report it
    srt,                \* the companion file of the clip
    input,              \* the arguments drawn for a call of a pure operation
    call                \* the last call: operation, arguments, locals, result

vars == <<devices, tables, properties_cache, threads, video, srt, input, call>>

None == "None"

(***************************************************************************)
(* Python dicts and strings                                                *)
(***************************************************************************)
Keys(d) == [i \in 1..Len(d) |-> d[i][1]]

Has(d, k) == \E i \in 1..Len(d) : d[i][1] = k

Get(d, k) == d[CHOOSE i \in 1..Len(d) : d[i][1] = k][2]

\* d.get(k, default)
GetOr(d, k, default) == IF Has(d, k) THEN Get(d, k) ELSE default

\* "t in s" for two strings
Contains(s, t) ==
    \E i \in 1..(Len(s) - Len(t) + 1) : SubSeq(s, i, i + Len(t) - 1) = t

LowerChar(c) ==
    CASE c = "A" -> "a" [] c = "B" -> "b" [] c = "C" -> "c" [] c = "D" -> "d"
      [] c = "E" -> "e" [] c = "F" -> "f" [] c = "G" -> "g" [] c = "H" -> "h"
      [] c = "I" -> "i" [] c = "J" -> "j" [] c = "K" -> "k" [] c = "L" -> "l"
      [] c = "M" -> "m" [] c = "N" -> "n" [] c = "O" -> "o" [] c = "P" -> "p"
      [] c = "Q" -> "q" [] c = "R" -> "r" [] c = "S" -> "s" [] c = "T" -> "t"
      [] c = "U" -> "u" [] c = "V" -> "v" [] c = "W" -> "w" [] c = "X" -> "x"
      [] c = "Y" -> "y" [] c = "Z" -> "z" [] OTHER -> c

RECURSIVE Lower(_)
Lower(s) ==
    IF Len(s) = 0 THEN ""
    ELSE LowerChar(SubSeq(s, 1, 1)) \o Lower(SubSeq(s, 2, Len(s)))

UpperChar(c) ==
    CASE c = "a" -> "A" [] c = "b" -> "B" [] c = "c" -> "C" [] c = "d" -> "D"
      [] c = "e" -> "E" [] c = "f" -> "F" [] c = "g" -> "G" [] c = "h" -> "H"
      [] c = "i" -> "I" [] c = "j" -> "J" [] c = "k" -> "K" [] c = "l" -> "L"
      [] c = "m" -> "M" [] c = "n" -> "N" [] c = "o" -> "O" [] c = "p" -> "P"
      [] c = "q" -> "Q" [] c = "r" -> "R" [] c = "s" -> "S" [] c = "t" -> "T"
      [] c = "u" -> "U" [] c = "v" -> "V" [] c = "w" -> "W" [] c = "x" -> "X"
      [] c = "y" -> "Y" [] c = "z" -> "Z" [] OTHER -> c

RECURSIVE Upper(_)
Upper(s) ==
    IF Len(s) = 0 THEN ""
    ELSE UpperChar(SubSeq(s, 1, 1)) \o Upper(SubSeq(s, 2, Len(s)))

\* d[k] = v
Put(d, k, v) ==
    IF Has(d, k)
    THEN [i \in 1..Len(d) |-> IF d[i][1] = k THEN <<k, v>> ELSE d[i]]
    ELSE Append(d, <<k, v>>)

(***************************************************************************)
(* enums.py                                                                *)
(***************************************************************************)
MINI_3_PRO == "DJI Mini 3 Pro"
MAVIC_2_PRO == "DJI Mavic 2 Pro"
ACTION_5_PRO == "DJI Osmo Action 5 Pro"

NORMAL == "normal"
D_CINELIKE == "d_cinelike"
D_LOG == "d_log"
HLG == "hlg"

get_all_profiles == <<NORMAL, D_CINELIKE, D_LOG, HLG>>

(***************************************************************************)
(* color_profiles.py                                                       *)
(***************************************************************************)
BASE_DETECTION_CONDITIONS ==
    << <<D_CINELIKE, << << <<"satavg", [max |-> 25]>> >> >> >>,
       <<D_LOG, << << <<"p90y", [max |-> 80]>>, <<"satavg", [max |-> 30]>> >> >> >>,
       <<HLG, << << <<"p90y", [min |-> 88]>> >> >> >> >>

METADATA_PROFILE_MAPPING ==
    << << <<"bt2020", "arib-std-b67">>, HLG >>,
       << <<"bt2020", "log">>, D_LOG >>,
       << <<"bt709", "bt709">>, None >> >>

\* ProfileManager.get_detection_conditions (validate_profile raises
\* ProfileError for a profile outside the enum; the catalog only asks for
\* profiles of the enum).
get_detection_conditions(profile) ==
    IF Has(BASE_DETECTION_CONDITIONS, profile)
    THEN Get(BASE_DETECTION_CONDITIONS, profile)
    ELSE <<>>

\* ProfileManager.detect_from_metadata
detect_from_metadata(color_primaries, color_transfer) ==
    IF color_primaries \in {None, ""} \/ color_transfer \in {None, ""}
    THEN None
    ELSE GetOr(METADATA_PROFILE_MAPPING,
               <<Lower(color_primaries), Lower(color_transfer)>>, None)

\* BASE_FFMPEG_PARAMS and PROFILE_PARAMS, the module-level tables
BASE_FFMPEG_PARAMS ==
    <<"-sws_flags", "lanczos+full_chroma_int+accurate_rnd", "-c:v", "tiff",
      "-pix_fmt", "rgb48le", "-color_range", "pc", "-color_primaries", "bt709",
      "-color_trc", "bt709", "-colorspace", "bt709">>

PROFILE_PARAMS ==
    << <<NORMAL, <<>> >>,
       <<D_CINELIKE, <<>> >>,
       <<D_LOG, <<"-color_primaries", "bt2020", "-colorspace", "bt2020nc",
                  "-color_trc", "log">> >>,
       <<HLG, <<"-color_primaries", "bt2020", "-colorspace", "bt2020nc",
                "-color_trc", "arib-std-b67">> >> >>

\* the two tables as the module holds them after import
Tables == [base |-> BASE_FFMPEG_PARAMS, profile |-> PROFILE_PARAMS]

\* ProfileManager.validate_profile
validate_profile(profile) ==
    IF \E i \in 1..Len(get_all_profiles) : get_all_profiles[i] = profile
    THEN None ELSE "ProfileError"

\* get_ffmpeg_params with params bound to the base list itself: extend
\* grows the base list
get_ffmpeg_params_shared(t, profile) ==
    IF validate_profile(profile) # None
    THEN [outcome |-> "raise", value |-> "ProfileError", tables |-> t]
    ELSE IF Has(t.profile, profile)
    THEN [outcome |-> "return", value |-> t.base \o Get(t.profile, profile),
          tables |-> [t EXCEPT !.base = t.base \o Get(t.profile, profile)]]
    ELSE [outcome |-> "return", value |-> t.base, tables |-> t]

\* ProfileManager.get_ffmpeg_params on the tables t: params is a copy of the
\* base list, so extend leaves the tables as they are
get_ffmpeg_params(t, profile) ==
    IF validate_profile(profile) # None
    THEN [outcome |-> "raise", value |-> "ProfileError", tables |-> t]
    ELSE IF Has(t.profile, profile)
    THEN [outcome |-> "return", value |-> t.base \o Get(t.profile, profile),
          tables |-> t]
    ELSE [outcome |-> "return", value |-> t.base, tables |-> t]

(***************************************************************************)
(* device_settings.py                                                      *)
(***************************************************************************)
BitClass(settings8, settings10) == << <<"8bit", settings8>>, <<"10bit", settings10>> >>

\* the "profiles" dict of a device: profile -> {"ffmpeg_params": ...}
Profiles(names) ==
    [i \in 1..Len(names) |->
        <<names[i], [ffmpeg_params |-> get_ffmpeg_params(Tables, names[i]).value]>>]

\* a catalog whose 10-bit default for the Mini 3 Pro is a profile the
\* device does not list
DEVICES_UnlistedDefault ==
    << <<MINI_3_PRO,
         [make |-> "DJI", model |-> "Mini 3 Pro",
          profiles |-> Profiles(<<NORMAL, D_CINELIKE>>),
          detection |-> BitClass(
              [default |-> NORMAL,
               profiles |-> << <<D_CINELIKE, get_detection_conditions(D_CINELIKE)>> >>],
              [default |-> D_LOG, profiles |-> <<>>])]>> >>

DEVICES ==
    << <<MINI_3_PRO,
         [make |-> "DJI", model |-> "Mini 3 Pro",
          profiles |-> Profiles(<<NORMAL, D_CINELIKE>>),
          detection |-> BitClass(
              [default |-> NORMAL,
               profiles |-> << <<D_CINELIKE, get_detection_conditions(D_CINELIKE)>> >>],
              [default |-> D_CINELIKE, profiles |-> <<>>])]>>,
       <<MAVIC_2_PRO,
         [make |-> "DJI", model |-> "Mavic 2 Pro",
          profiles |-> Profiles(<<NORMAL, D_LOG, HLG>>),
          detection |-> BitClass(
              [default |-> NORMAL, profiles |-> <<>>],
              [default |-> D_LOG,
               profiles |-> << <<HLG, get_detection_conditions(HLG)>>,
                               <<D_LOG, get_detection_conditions(D_LOG)>> >>])]>>,
       <<ACTION_5_PRO,
         [make |-> "DJI", model |-> "Osmo Action 5 Pro",
          profiles |-> Profiles(<<NORMAL, D_LOG, HLG>>),
          detection |-> BitClass(
              [default |-> NORMAL, profiles |-> <<>>],
              [default |-> NORMAL,
               profiles |->
                 << <<HLG, << << <<"p90y", [min |-> 85]>>,
                                 <<"satavg", [min |-> 45]>> >> >> >>,
                    <<D_LOG, << << <<"p90y", [min |-> 45, max |-> 80]>>,
                                   <<"satavg", [min |-> 25, max |-> 45]>>,
                                   <<"yavg", [max |-> 50]>> >>,
                                << <<"p90y", [min |-> 40, max |-> 82]>>,
                                   <<"yavg", [min |-> 30, max |-> 50]>>,
                                   <<"satavg", [min |-> 20]>> >> >> >> >>])]>> >>

\* DeviceManager.get_supported_devices
get_supported_devices(devs) == Keys(devs)

\* DeviceManager.get_supported_profiles; "DeviceError" when the device is unknown
get_supported_profiles(devs, device) ==
    IF ~Has(devs, device) THEN "DeviceError" ELSE Keys(Get(devs, device).profiles)

\* DeviceManager.get_detection_settings; "DeviceError" when the device is unknown
get_detection_settings(devs, device) ==
    IF ~Has(devs, device) THEN "DeviceError" ELSE Get(devs, device).detection

\* DeviceManager.validate_device
validate_device(devs, device) ==
    IF \E i \in 1..Len(get_supported_devices(devs)) :
           get_supported_devices(devs)[i] = device
    THEN None ELSE "DeviceError"

\* DeviceManager.get_device_ffmpeg_params
get_device_ffmpeg_params(devs, device, profile) ==
    IF validate_device(devs, device) # None
    THEN [outcome |-> "raise", value |-> "DeviceError"]
    ELSE IF \A i \in 1..Len(get_supported_profiles(devs, device)) :
                get_supported_profiles(devs, device)[i] # profile
    THEN [outcome |-> "raise", value |-> "ProfileError"]
    ELSE [outcome |-> "return",
          value |-> Get(Get(devs, device).profiles, profile).ffmpeg_params]

RECURSIVE ModelLoopContainedOnly(_, _, _)
\* a model loop that matches only a query contained in the model name
ModelLoopContainedOnly(devs, name_lower, i) ==
    IF i > Len(devs) THEN None
    ELSE IF Contains(Lower(devs[i][2].model), name_lower) THEN devs[i][1]
    ELSE ModelLoopContainedOnly(devs, name_lower, i + 1)

RECURSIVE ModelLoop(_, _, _)
\* the loop of find_device_by_name over self.devices.items(), from index i
ModelLoop(devs, name_lower, i) ==
    IF i > Len(devs) THEN None
    ELSE IF \/ Contains(name_lower, Lower(devs[i][2].model))
            \/ Contains(Lower(devs[i][2].model), name_lower)
    THEN devs[i][1]
    ELSE ModelLoop(devs, name_lower, i + 1)

\* DeviceManager.find_device_by_name
find_device_by_name(devs, name) ==
    IF Has(devs, Lower(name)) THEN Lower(name)
    ELSE ModelLoop(devs, Lower(name), 1)

(***************************************************************************)
(* video_analyzer.py: rule evaluation                                      *)
(***************************************************************************)
\* stat_value < bound and stat_value > bound, bound in hundredths
StatLess(stat_value, bound) == stat_value[1] * 100 < bound * stat_value[2]

StatGreater(stat_value, bound) == stat_value[1] * 100 > bound * stat_value[2]

\* check_condition with exclusive bounds
check_condition_exclusive(stat_value, condition) ==
    IF "min" \in DOMAIN condition /\ ~StatGreater(stat_value, condition["min"])
    THEN FALSE
    ELSE IF "max" \in DOMAIN condition /\ ~StatLess(stat_value, condition["max"])
    THEN FALSE
    ELSE TRUE

\* VideoAnalyzer.check_condition
check_condition(stat_value, condition) ==
    IF "min" \in DOMAIN condition /\ StatLess(stat_value, condition["min"])
    THEN FALSE
    ELSE IF "max" \in DOMAIN condition /\ StatGreater(stat_value, condition["max"])
    THEN FALSE
    ELSE TRUE

\* a rule loop that stops after the first constraint of the rule
RuleLoopFirstOnly(rule, stats, i) ==
    IF i > Len(rule) THEN TRUE
    ELSE IF ~Has(stats, rule[i][1]) THEN FALSE
    ELSE check_condition(Get(stats, rule[i][1]), rule[i][2])

RECURSIVE RuleLoop(_, _, _)
\* the inner loop of check_all_conditions over rule.items(), from index i:
\* the value of rule_satisfied when the loop ends or breaks
RuleLoop(rule, stats, i) ==
    IF i > Len(rule) THEN TRUE
    ELSE IF ~Has(stats, rule[i][1]) THEN FALSE
    ELSE IF ~check_condition(Get(stats, rule[i][1]), rule[i][2]) THEN FALSE
    ELSE RuleLoop(rule, stats, i + 1)

RECURSIVE ConditionsLoop(_, _, _)
\* the outer loop of check_all_conditions over the rules, from index i
ConditionsLoop(conditions, stats, i) ==
    IF i > Len(conditions) THEN FALSE
    ELSE IF RuleLoop(conditions[i], stats, 1) THEN TRUE
    ELSE ConditionsLoop(conditions, stats, i + 1)

\* VideoAnalyzer.check_all_conditions
check_all_conditions(conditions, stats) ==
    IF Len(conditions) = 0 THEN FALSE ELSE ConditionsLoop(conditions, stats, 1)

\* a loop that gives up after the first declared profile
ProfilesLoopFirstOnly(profiles, norm_stats, default_profile, i) ==
    IF Len(profiles) >= i /\ check_all_conditions(profiles[i][2], norm_stats)
    THEN profiles[i][1]
    ELSE default_profile

RECURSIVE ProfilesLoop(_, _, _, _)
\* the loop of detect_profile over device_bit_settings["profiles"].items()
ProfilesLoop(profiles, norm_stats, default_profile, i) ==
    IF i > Len(profiles) THEN default_profile
    ELSE IF check_all_conditions(profiles[i][2], norm_stats) THEN profiles[i][1]
    ELSE ProfilesLoop(profiles, norm_stats, default_profile, i + 1)

(***************************************************************************)
(* video_analyzer.py: container inspection (ffprobe) and its cache         *)
(*                                                                         *)
(* A call threads a context ctx = [cache, nprobe, nfail]: the cache, the   *)
(* number of ffprobe invocations made so far in this call, and how many of *)
(* the first invocations fail (after the first success the result is       *)
(* cached, so this covers every sequence of outcomes).  r_frame_rate, fps  *)
(* and duration only shape the sampling command line and are left out.     *)
(***************************************************************************)
DefaultProperties ==
    [pix_fmt |-> "yuv420p", color_primaries |-> None,
     color_transfer |-> None, color_space |-> None]

\* what a successful ffprobe run reports for the clip v
ProbedProperties(v) ==
    [pix_fmt |-> v.pix_fmt, color_primaries |-> v.color_primaries,
     color_transfer |-> v.color_transfer, color_space |-> v.color_space]

\* get_video_properties without the look into the cache
get_video_properties_uncached(ctx, path, v) ==
    IF ctx.nprobe + 1 <= ctx.nfail
    THEN [value |-> DefaultProperties,
          ctx |-> [ctx EXCEPT !.nprobe = @ + 1]]
    ELSE [value |-> ProbedProperties(v),
          ctx |-> [ctx EXCEPT !.nprobe = @ + 1,
                              !.cache = Put(@, path, ProbedProperties(v))]]

\* VideoAnalyzer.get_video_properties
get_video_properties(ctx, path, v) ==
    IF Has(ctx.cache, path)
    THEN [value |-> Get(ctx.cache, path), ctx |-> ctx]
    ELSE IF ctx.nprobe + 1 <= ctx.nfail
    THEN [value |-> DefaultProperties,
          ctx |-> [ctx EXCEPT !.nprobe = @ + 1]]
    ELSE [value |-> ProbedProperties(v),
          ctx |-> [ctx EXCEPT !.nprobe = @ + 1,
                              !.cache = Put(@, path, ProbedProperties(v))]]

\* VideoAnalyzer.get_pixel_format
get_pixel_format(ctx, path, v) ==
    LET Ret(r) == [value |-> r.value.pix_fmt, ctx |-> r.ctx]
    IN  Ret(get_video_properties(ctx, path, v))

\* VideoAnalyzer.get_video_metadata: a VideoMetadata; dji_color_mode is
\* never filled in here
get_video_metadata(ctx, path, v) ==
    LET Ret(r) == [value |-> [color_primaries |-> r.value.color_primaries,
                              color_transfer |-> r.value.color_transfer,
                              color_space |-> r.value.color_space,
                              dji_color_mode |-> None],
                   ctx |-> r.ctx]
    IN  Ret(get_video_properties(ctx, path, v))

\* VideoAnalyzer.get_bit_depth
get_bit_depth(pixel_format) ==
    IF Contains(pixel_format, "10") THEN 10
    ELSE IF Contains(pixel_format, "12") THEN 12
    ELSE 8

\* (1 << bit_depth) - 1
MaxValue(bit_depth) == 2 ^ bit_depth - 1

(***************************************************************************)
(* video_analyzer.py: frame statistics (ffmpeg signalstats)                *)
(*                                                                         *)
(* A sample of the stats file is a rational <<num, den>>; the statistics   *)
(* are computed as exact rationals.                                        *)
(***************************************************************************)
RECURSIVE SumNum(_)
\* the sum of the numerators of samples that share one denominator
SumNum(values) ==
    IF Len(values) = 0 THEN 0 ELSE Head(values)[1] + SumNum(Tail(values))

\* statistics.mean over samples that share one denominator
Mean(values) == <<SumNum(values), values[1][2] * Len(values)>>

RatLE(a, b) == a[1] * b[2] <= b[1] * a[2]

RECURSIVE Insert(_, _)
Insert(sorted, x) ==
    IF Len(sorted) = 0 THEN <<x>>
    ELSE IF RatLE(x, Head(sorted)) THEN <<x>> \o sorted
    ELSE <<Head(sorted)>> \o Insert(Tail(sorted), x)

RECURSIVE Sort(_)
\* list.sort()
Sort(values) ==
    IF Len(values) = 0 THEN <<>> ELSE Insert(Sort(Tail(values)), Head(values))

\* VideoStats(p90y=0.7*max_value, satavg=0.3*MAX_SAT, yavg=0.5*max_value)
DefaultStats(max_value) ==
    [p90y |-> <<7 * max_value, 10>>, satavg |-> <<3, 10>>,
     yavg |-> <<5 * max_value, 10>>]

\* the values "typical for D-Log" of the fallback branch
DLogStats(max_value) ==
    [p90y |-> <<65 * max_value, 100>>, satavg |-> <<25, 100>>,
     yavg |-> <<45 * max_value, 100>>]

\* the statistics computed from the parsed samples (yavg_values not empty)
SampleStats(yavg_values, satavg_values) ==
    LET p90 == (9 * Len(yavg_values)) \div 10
        p90_index == IF p90 >= Len(yavg_values) THEN Len(yavg_values) - 1 ELSE p90
    IN  [p90y |-> yavg_values[p90_index + 1],
         yavg |-> Mean(yavg_values),
         satavg |-> IF Len(satavg_values) > 0 THEN Mean(satavg_values)
                    ELSE <<3, 10>>]

\* the "metadata-based approach" that follows a failed signalstats run
FallbackStats(m, pixel_format, max_value) ==
    [value |-> IF /\ Contains(pixel_format, "10")
                  /\ m.value.color_transfer \in {None, ""}
                  /\ m.value.color_primaries \in {None, ""}
               THEN DLogStats(max_value)
               ELSE DefaultStats(max_value),
     outcome |-> "return", ctx |-> m.ctx]

\* get_video_stats once the properties r are known
StatsOf(r, path, v, sampling, max_value) ==
    IF sampling = "error"
    THEN [value |-> "OSError", outcome |-> "raise", ctx |-> r.ctx]
    ELSE IF sampling = "empty"
    THEN [value |-> DefaultStats(max_value), outcome |-> "return", ctx |-> r.ctx]
    ELSE IF sampling = "ok" /\ Len(v.yavg_values) = 0
    THEN [value |-> DefaultStats(max_value), outcome |-> "return", ctx |-> r.ctx]
    ELSE IF sampling = "ok"
    THEN [value |-> SampleStats(Sort(v.yavg_values), v.satavg_values),
          outcome |-> "return", ctx |-> r.ctx]
    ELSE FallbackStats(get_video_metadata(r.ctx, path, v), r.value.pix_fmt,
                       max_value)

\* VideoAnalyzer.get_video_stats; sampling is what the sampling run does:
\* "error" (the temporary directory cannot be created: OSError, raised
\* outside the try), "fail" (run_command raises), "empty" (no stats file, or
\* an empty one), "ok" (the stats file holds the samples of the clip)
get_video_stats(ctx, path, v, sampling) ==
    LET Ret(r) == StatsOf(r, path, v, sampling,
                          MaxValue(get_bit_depth(r.value.pix_fmt)))
    IN  Ret(get_video_properties(ctx, path, v))

(***************************************************************************)
(* video_analyzer.py: profile detection                                    *)
(***************************************************************************)
\* VideoAnalyzer.detect_profile_from_metadata
detect_profile_from_metadata(metadata, device_type) ==
    IF /\ metadata.dji_color_mode # None
       /\ Contains(Upper(metadata.dji_color_mode), "D-CINELIKE")
    THEN (IF device_type = MAVIC_2_PRO THEN None ELSE D_CINELIKE)
    ELSE IF /\ metadata.dji_color_mode # None
            /\ Contains(Upper(metadata.dji_color_mode), "NORMAL")
    THEN NORMAL
    ELSE detect_from_metadata(metadata.color_primaries, metadata.color_transfer)

\* stats.<name> / max: a rational divided by an integer
Normalize(stat, max) == <<stat[1], stat[2] * max>>

\* norm_stats of detect_profile; MAX_SAT is 1.0
NormStats(stats, max_luma) ==
    << <<"p90y", Normalize(stats.p90y, max_luma)>>,
       <<"satavg", Normalize(stats.satavg, 1)>>,
       <<"yavg", Normalize(stats.yavg, max_luma)>> >>

\* detect_profile from "Analyze video to get statistics" on
ClassifyStats(st, device_bit_settings, bit_depth, bit_category, max_luma) ==
    IF st.outcome = "raise"
    THEN [outcome |-> "raise", value |-> st.value, ctx |-> st.ctx,
          profile_from_metadata |-> None, bit_depth |-> bit_depth,
          bit_category |-> bit_category, has_stats |-> FALSE, norm_stats |-> <<>>]
    ELSE
    [outcome |-> "return",
     value |-> ProfilesLoop(device_bit_settings.profiles,
                            NormStats(st.value, max_luma),
                            device_bit_settings.default, 1),
     ctx |-> st.ctx, profile_from_metadata |-> None, bit_depth |-> bit_depth,
     bit_category |-> bit_category, has_stats |-> TRUE,
     norm_stats |-> NormStats(st.value, max_luma)]

\* detect_profile from "Select bit depth category" on
ClassifyDepth(ctx, device_bit_settings, bit_depth, bit_category, max_luma, path, v, sampling) ==
    IF Len(device_bit_settings.profiles) = 0
    THEN [outcome |-> "return", value |-> device_bit_settings.default,
          ctx |-> ctx, profile_from_metadata |-> None, bit_depth |-> bit_depth,
          bit_category |-> bit_category, has_stats |-> FALSE, norm_stats |-> <<>>]
    ELSE ClassifyStats(get_video_stats(ctx, path, v, sampling),
                       device_bit_settings, bit_depth, bit_category, max_luma)

\* detect_profile from "Try to detect from metadata first" on
ClassifyTags(md, profile_from_metadata, detection_settings, bit_depth, path, v, sampling) ==
    IF profile_from_metadata # None
    THEN [outcome |-> "return", value |-> profile_from_metadata, ctx |-> md.ctx,
          profile_from_metadata |-> profile_from_metadata, bit_depth |-> bit_depth,
          bit_category |-> None, has_stats |-> FALSE, norm_stats |-> <<>>]
    ELSE ClassifyDepth(md.ctx,
                       Get(detection_settings,
                           IF bit_depth >= 10 THEN "10bit" ELSE "8bit"),
                       bit_depth, IF bit_depth >= 10 THEN "10bit" ELSE "8bit",
                       MaxValue(bit_depth), path, v, sampling)

\* detect_profile from "Determine video bit depth" on
ClassifyClip(pf, detection_settings, device_type, path, v, sampling) ==
    LET Ret(md) == ClassifyTags(md, detect_profile_from_metadata(md.value, device_type),
                                detection_settings, get_bit_depth(pf.value),
                                path, v, sampling)
    IN  Ret(get_video_metadata(pf.ctx, path, v))

\* VideoAnalyzer.detect_profile.  The result records the locals the
\* statements about it read: profile_from_metadata, bit_category and
\* norm_stats (has_stats tells whether the statistics were computed).
detect_profile(ctx, devs, path, v, device_type, sampling) ==
    IF ~Has(devs, device_type)
    THEN [outcome |-> "raise", value |-> "DeviceError", ctx |-> ctx,
          profile_from_metadata |-> None, bit_depth |-> None,
          bit_category |-> None, has_stats |-> FALSE, norm_stats |-> <<>>]
    ELSE ClassifyClip(get_pixel_format(ctx, path, v),
                      get_detection_settings(devs, device_type),
                      device_type, path, v, sampling)

\* detect_color_profile without its try: what detect_profile raises leaves
\* the call
detect_color_profile_unguarded(ctx, devs, path, v, device_type, sampling) ==
    LET Ret(r) == [outcome |-> r.outcome, value |-> r.value, ctx |-> r.ctx,
                   caught |-> None]
    IN  IF \A i \in 1..Len(get_supported_devices(devs)) :
               get_supported_devices(devs)[i] # device_type
        THEN [outcome |-> "return", value |-> NORMAL, ctx |-> ctx, caught |-> None]
        ELSE Ret(detect_profile(ctx, devs, path, v, device_type, sampling))

\* VideoAnalyzer.detect_color_profile; caught is the exception its except
\* clause has handled, None when there was none
detect_color_profile(ctx, devs, path, v, device_type, sampling) ==
    LET Ret(r) == IF r.outcome = "raise"
                  THEN [outcome |-> "return", value |-> NORMAL, ctx |-> r.ctx,
                        caught |-> r.value]
                  ELSE [outcome |-> "return", value |-> r.value, ctx |-> r.ctx,
                        caught |-> None]
    IN  IF \A i \in 1..Len(get_supported_devices(devs)) :
               get_supported_devices(devs)[i] # device_type
        THEN [outcome |-> "return", value |-> NORMAL, ctx |-> ctx, caught |-> None]
        ELSE Ret(detect_profile(ctx, devs, path, v, device_type, sampling))

\* metadata.get(key, "").lower(): "AttributeError" when the value is no text
FieldLower(metadata, key) ==
    LET Ret(x) == IF x = None THEN "AttributeError" ELSE Lower(x)
    IN  Ret(GetOr(metadata, key, ""))

\* the matcher without the check of the device
MetadataTextProfileNoVeto(all_text, device_type) ==
    IF Contains(all_text, "d-cinelike") \/ Contains(all_text, "d_cinelike")
    THEN D_CINELIKE
    ELSE IF Contains(all_text, "d-log") \/ Contains(all_text, "d_log")
    THEN D_LOG
    ELSE IF Contains(all_text, "hlg")
    THEN HLG
    ELSE None

\* Step 1 of detect_color_profile_from_all_sources: the profile found in the
\* metadata text fields, None when none is
MetadataTextProfile(all_text, device_type) ==
    IF Contains(all_text, "d-cinelike") \/ Contains(all_text, "d_cinelike")
    THEN (IF device_type # MAVIC_2_PRO THEN D_CINELIKE ELSE None)
    ELSE IF Contains(all_text, "d-log") \/ Contains(all_text, "d_log")
    THEN D_LOG
    ELSE IF Contains(all_text, "hlg")
    THEN HLG
    ELSE None

\* Step 2: the profile found in the lowercased text of the SRT file
SrtTextProfile(srt_content) ==
    IF \/ Contains(srt_content, "[color_md : d_cinelike]")
       \/ Contains(srt_content, "d-cinelike")
    THEN D_CINELIKE
    ELSE IF \/ Contains(srt_content, "[color_md : d_log]")
            \/ Contains(srt_content, "d-log")
    THEN D_LOG
    ELSE IF \/ Contains(srt_content, "[color_md : hlg]")
            \/ Contains(srt_content, "hlg")
    THEN HLG
    ELSE None

\* pathlib.Path.exists for the companion path with the given suffix
SrtExists(file, suffix) == file.suffix = suffix

\* the path Step 2 settles on: '.SRT' if it exists, else '.srt'
SrtPath(file) == IF SrtExists(file, ".SRT") THEN ".SRT" ELSE ".srt"

\* the f-string all_text, lowercased, of the four lowercased fields
AllText(comment, category, description, encoder) ==
    Lower(comment \o " " \o category \o " " \o description \o " " \o encoder)

\* Step 3, reached with profile_source still "default" and a device_type
ContentAnalysis(r, events) ==
    [outcome |-> "return",
     value |-> IF r.outcome = "return" /\ r.value \notin {None, ""}
               THEN <<r.value, "content analysis">>
               ELSE <<NORMAL, "default">>,
     ctx |-> r.ctx, events |-> Append(events, "content_analysis")]

\* Step 2 entered without the test of profile_source
AfterMetadataTextUnguarded(p1, events, ctx, devs, path, v, file, device_type, sampling) ==
    LET found == SrtExists(file, SrtPath(file))
        ev1 == IF p1 # None THEN Append(events, "metadata_match") ELSE events
        After(p2) ==
            IF p2 # None
            THEN [outcome |-> "return", value |-> <<p2, "SRT">>, ctx |-> ctx,
                  events |-> ev1 \o <<"srt_exists", "srt_open", "srt_match">>]
            ELSE IF p1 # None
            THEN [outcome |-> "return", value |-> <<p1, "metadata">>, ctx |-> ctx,
                  events |-> ev1 \o <<"srt_exists">>
                                 \o (IF found THEN <<"srt_open">> ELSE <<>>)]
            ELSE ContentAnalysis(
                     detect_color_profile(ctx, devs, path, v, device_type, sampling),
                     ev1 \o <<"srt_exists">>
                         \o (IF found THEN <<"srt_open">> ELSE <<>>))
    IN  IF device_type \in {None, ""}
        THEN [outcome |-> "return",
              value |-> IF p1 # None THEN <<p1, "metadata">> ELSE <<NORMAL, "default">>,
              ctx |-> ctx, events |-> ev1]
        ELSE After(IF found /\ file.readable
                   THEN SrtTextProfile(Lower(file.content)) ELSE None)

\* Step 2 and what follows it, given the profile p1 of Step 1
AfterMetadataText(p1, events, ctx, devs, path, v, file, device_type, sampling) ==
    LET found == SrtExists(file, SrtPath(file))
        After(p2) ==
            IF p2 # None
            THEN [outcome |-> "return", value |-> <<p2, "SRT">>, ctx |-> ctx,
                  events |-> events \o <<"srt_exists", "srt_open", "srt_match">>]
            ELSE ContentAnalysis(
                     detect_color_profile(ctx, devs, path, v, device_type, sampling),
                     events \o <<"srt_exists">>
                            \o (IF found THEN <<"srt_open">> ELSE <<>>))
    IN  IF p1 # None
        THEN [outcome |-> "return", value |-> <<p1, "metadata">>, ctx |-> ctx,
              events |-> Append(events, "metadata_match")]
        ELSE IF device_type \in {None, ""}
        THEN [outcome |-> "return", value |-> <<NORMAL, "default">>, ctx |-> ctx,
              events |-> events]
        ELSE After(IF found /\ file.readable
                   THEN SrtTextProfile(Lower(file.content)) ELSE None)

\* Step 1, given the four lowercased fields
MetadataText(fields, ctx, devs, path, v, file, device_type, sampling) ==
    IF \E i \in 1..4 : fields[i] = "AttributeError"
    THEN [outcome |-> "raise", value |-> "AttributeError", ctx |-> ctx,
          events |-> <<"metadata_text">>]
    ELSE AfterMetadataText(
             MetadataTextProfile(AllText(fields[1], fields[2], fields[3], fields[4]),
                                 device_type),
             <<"metadata_text">>, ctx, devs, path, v, file, device_type, sampling)

\* VideoAnalyzer.detect_color_profile_from_all_sources; metadata is the
\* exiftool dict, the empty dict when none is given.  events lists, in
\* order, what the call did: "metadata_text" (Step 1 looked at the text),
\* "metadata_match", "srt_exists" (Step 2 looked for the file), "srt_open",
\* "srt_match", "content_analysis" (Step 3 called detect_color_profile).
detect_color_profile_from_all_sources(ctx, devs, path, v, file, device_type, metadata, sampling) ==
    IF Len(metadata) > 0
    THEN MetadataText(<<FieldLower(metadata, "Comment"),
                        FieldLower(metadata, "Category"),
                        FieldLower(metadata, "Description"),
                        FieldLower(metadata, "Encoder")>>,
                      ctx, devs, path, v, file, device_type, sampling)
    ELSE AfterMetadataText(None, <<>>, ctx, devs, path, v, file, device_type,
                           sampling)

(***************************************************************************)
(* The clips, companion files and arguments the operations are applied to  *)
(***************************************************************************)
MaxSamples == 2

MaxProbeFailures == 2

VideoPath == "clip.MP4"

PixFmts == {"yuv420p", "yuv420p10le", "yuv422p12le"}

\* <<color_primaries, color_transfer>> of the video stream
ColorTags ==
    {<<None, None>>, <<"bt709", "bt709">>, <<"bt2020", "arib-std-b67">>,
     <<"BT2020", "log">>, <<"bt2020", None>>}

\* luminance and saturation of a sampled frame, in hundredths of the maximum
LumaLevels == {20, 45, 80, 81, 88}

SatLevels == {20, 25, 30, 45}

RECURSIVE SeqsUpTo(_, _)
\* the sequences over S of length 0..n
SeqsUpTo(S, n) ==
    IF n = 0 THEN {<<>>}
    ELSE LET shorter == SeqsUpTo(S, n - 1)
         IN  shorter \cup {Append(q, x) : q \in shorter, x \in S}

\* a YAVG sample of the stats file: a code value of the clip's bit depth
LumaSample(level, pix_fmt) == <<level * MaxValue(get_bit_depth(pix_fmt)), 100>>

SatSample(level) == <<level, 100>>

NoExif == <<>>

NoSrt == [suffix |-> None, readable |-> FALSE, content |-> "", lines |-> <<>>]

Clip(pix_fmt, tags, yavg_levels, sat_levels, exif) ==
    [pix_fmt |-> pix_fmt, color_primaries |-> tags[1], color_transfer |-> tags[2],
     color_space |-> None,
     yavg_values |-> [i \in 1..Len(yavg_levels) |-> LumaSample(yavg_levels[i], pix_fmt)],
     satavg_values |-> [i \in 1..Len(sat_levels) |-> SatSample(sat_levels[i])],
     exif |-> exif]

\* exiftool dicts: the text fields profile detection reads
ExifDicts ==
    {NoExif,
     << <<"Model", "FC3582">>, <<"Encoder", "DJI Mini 3 Pro">> >>,
     << <<"Comment", "D-Cinelike">> >>,
     << <<"Description", "shot in d_cinelike">>, <<"Encoder", "Lavf58">> >>,
     << <<"Comment", "d-cinelike or D-Log">> >>,
     << <<"Encoder", "DJI D-LOG">> >>,
     << <<"Category", "d_log">> >>,
     << <<"Comment", "HLG">> >>,
     << <<"Comment", None>>, <<"Encoder", "hlg">> >>,
     << <<"Model", "FC3582">>, <<"Comment", "">> >>}

SrtFiles ==
    {NoSrt}
    \cup {[suffix |-> x, readable |-> TRUE, content |-> c, lines |-> <<>>] :
             x \in {".SRT", ".srt"},
             c \in {"", "[color_md : d_cinelike]", "[color_md: d_log]",
                    "[color_md : D_Log]", "mode d_cinelike", "HLG"}}
    \cup {[suffix |-> ".SRT", readable |-> FALSE, content |-> "hlg", lines |-> <<>>],
          [suffix |-> ".Srt", readable |-> TRUE, content |-> "d-log", lines |-> <<>>]}

DeviceArgs == {MINI_3_PRO, MAVIC_2_PRO, ACTION_5_PRO, "GoPro"}

Samplings == {"ok", "empty", "fail", "error"}

NoCall == [op |-> "none"]

NoInput == [kind |-> "none"]

\* clips that differ in their samples
InitStats ==
    /\ video \in {Clip(f, <<None, None>>, y, st, NoExif) :
                     f \in PixFmts, y \in SeqsUpTo(LumaLevels, MaxSamples),
                     st \in SeqsUpTo(SatLevels, 1)}
    /\ srt = NoSrt

\* clips that differ in their container colour tags
InitTags ==
    /\ video \in {Clip(f, t, <<80>>, <<30>>, NoExif) : f \in PixFmts, t \in ColorTags}
    /\ srt = NoSrt

\* clips that differ in their metadata text and companion file
InitText ==
    /\ video \in {Clip(f, <<None, None>>, <<45, 80>>, <<25>>, x) :
                     f \in {"yuv420p", "yuv420p10le"}, x \in ExifDicts}
    /\ srt \in SrtFiles

\* The analyzer is fresh, or has inspected the clip in an earlier call.
Init ==
    /\ devices = DEVICES
    /\ tables = Tables
    /\ threads = <<>>
    /\ call = NoCall
    /\ input = NoInput
    /\ (InitStats \/ InitTags \/ InitText)
    /\ properties_cache \in {<<>>, << <<VideoPath, ProbedProperties(video)>> >>}

Ctx(nfail) == [cache |-> properties_cache, nprobe |-> 0, nfail |-> nfail]

DetectProfile ==
    /\ call.op = "none"
    /\ \E device_type \in DeviceArgs, nfail \in 0..MaxProbeFailures, sampling \in Samplings :
        LET Act(r) ==
            /\ call' = [op |-> "detect_profile", device_type |-> device_type,
                        nfail |-> nfail, sampling |-> sampling,
                        outcome |-> r.outcome, value |-> r.value,
                        nprobe |-> r.ctx.nprobe,
                        profile_from_metadata |-> r.profile_from_metadata,
                        bit_depth |-> r.bit_depth, bit_category |-> r.bit_category,
                        has_stats |-> r.has_stats, norm_stats |-> r.norm_stats]
            /\ properties_cache' = r.ctx.cache
            /\ UNCHANGED <<devices, tables, threads, video, srt, input>>
        IN  Act(detect_profile(Ctx(nfail), devices, VideoPath, video, device_type,
                               sampling))

DetectColorProfile ==
    /\ call.op = "none"
    /\ \E device_type \in DeviceArgs, nfail \in 0..MaxProbeFailures, sampling \in Samplings :
        LET Act(r) ==
            /\ call' = [op |-> "detect_color_profile", device_type |-> device_type,
                        nfail |-> nfail, sampling |-> sampling,
                        outcome |-> r.outcome, value |-> r.value,
                        caught |-> r.caught, nprobe |-> r.ctx.nprobe]
            /\ properties_cache' = r.ctx.cache
            /\ UNCHANGED <<devices, tables, threads, video, srt, input>>
        IN  Act(detect_color_profile(Ctx(nfail), devices, VideoPath, video,
                                     device_type, sampling))

DetectColorProfileFromAllSources ==
    /\ call.op = "none"
    /\ \E device_type \in DeviceArgs \cup {None}, metadata \in {video.exif, NoExif},
       nfail \in 0..MaxProbeFailures, sampling \in Samplings :
        LET Act(r) ==
            /\ call' = [op |-> "detect_color_profile_from_all_sources",
                        device_type |-> device_type, metadata |-> metadata,
                        nfail |-> nfail, sampling |-> sampling,
                        outcome |-> r.outcome, value |-> r.value,
                        nprobe |-> r.ctx.nprobe, events |-> r.events]
            /\ properties_cache' = r.ctx.cache
            /\ UNCHANGED <<devices, tables, threads, video, srt, input>>
        IN  Act(detect_color_profile_from_all_sources(
                    Ctx(nfail), devices, VideoPath, video, srt, device_type,
                    metadata, sampling))

\* values of DJI's private colour-mode tag
ColorModes == {None, "D-Cinelike", "DJI d-cinelike 10bit", "Normal", "D_CINELIKE"}

\* detect_profile_from_metadata applied to a VideoMetadata that carries the
\* colour tags of the clip and a colour-mode tag
DetectProfileFromMetadata ==
    /\ call.op = "none"
    /\ \E device_type \in DeviceArgs \cup {None}, dji_color_mode \in ColorModes :
        LET metadata == [color_primaries |-> video.color_primaries,
                         color_transfer |-> video.color_transfer,
                         color_space |-> video.color_space,
                         dji_color_mode |-> dji_color_mode]
        IN  /\ call' = [op |-> "detect_profile_from_metadata",
                        device_type |-> device_type, metadata |-> metadata,
                        outcome |-> "return",
                        value |-> detect_profile_from_metadata(metadata, device_type)]
            /\ UNCHANGED <<devices, tables, threads, properties_cache, video, srt, input>>

GetVideoStats ==
    /\ call.op = "none"
    /\ \E nfail \in 0..MaxProbeFailures, sampling \in Samplings :
        LET Act(r) ==
            /\ call' = [op |-> "get_video_stats", outcome |-> r.outcome,
                        value |-> r.value, sampling |-> sampling, nfail |-> nfail,
                        nprobe |-> r.ctx.nprobe,
                        pix_fmt |-> get_pixel_format(Ctx(nfail), VideoPath,
                                                     video).value]
            /\ properties_cache' = r.ctx.cache
        IN  Act(get_video_stats(Ctx(nfail), VideoPath, video, sampling))
    /\ UNCHANGED <<devices, tables, threads, video, srt, input>>

\* MetadataProcessor.find_matching_srt: the suffix of the companion path
\* returned, None when neither '.SRT' nor '.srt' exists
find_matching_srt(file) ==
    IF SrtExists(file, ".SRT") THEN ".SRT"
    ELSE IF SrtExists(file, ".srt") THEN ".srt"
    ELSE None

FindMatchingSrt ==
    /\ call.op = "none"
    /\ call' = [op |-> "find_matching_srt", outcome |-> "return",
                value |-> find_matching_srt(srt)]
    /\ UNCHANGED <<devices, tables, threads, properties_cache, video, srt, input>>

Next ==
    \/ DetectProfile
    \/ DetectColorProfile
    \/ DetectColorProfileFromAllSources
    \/ DetectProfileFromMetadata
    \/ FindMatchingSrt
    \/ GetVideoStats

Spec == Init /\ [][Next]_vars

(***************************************************************************)
(* Rule evaluation applied to arbitrary rules and samples                  *)
(***************************************************************************)
MaxRules == 2

\* bounds of a constraint, in hundredths
LowBound == 30

HighBound == 50

\* the constraint of one statistic: no bound, min, max, or both
Constraints ==
    {<<>>, [min |-> LowBound], [max |-> HighBound],
     [min |-> LowBound, max |-> HighBound]}

\* a rule names p90y, satavg, both or neither
Rules ==
    {<<>>}
    \cup {<< <<n, c>> >> : n \in {"p90y", "satavg"}, c \in Constraints}
    \cup {<< <<"p90y", c1>>, <<"satavg", c2>> >> : c1, c2 \in Constraints}

\* a sample has p90y or not, at, below, above or between the bounds, and
\* satavg or not
Samples ==
    {p \o q :
        p \in {<<>>} \cup {<< <<"p90y", <<x, 100>> >> >> :
                              x \in {LowBound - 1, LowBound, HighBound, HighBound + 1}},
        q \in {<<>>} \cup {<< <<"satavg", <<x, 100>> >> >> :
                              x \in {LowBound, HighBound + 1}}}

\* the rule lists a profile of a rule set may have
ProfileConditions ==
    {<<>>,
     << << <<"p90y", [min |-> LowBound]>> >> >>,
     << << <<"p90y", [max |-> HighBound]>> >> >>,
     << << <<"satavg", [min |-> LowBound]>> >> >>,
     << << <<"p90y", [min |-> LowBound, max |-> HighBound]>>,
           <<"satavg", [max |-> HighBound]>> >> >>,
     << << <<"p90y", [max |-> LowBound]>> >>,
        << <<"satavg", [min |-> HighBound]>> >> >>}

\* rule sets: a dict from three profiles to their rule lists
RuleSets ==
    {<< <<HLG, a>>, <<D_LOG, b>>, <<D_CINELIKE, c>> >> :
        a \in ProfileConditions, b \in ProfileConditions, c \in ProfileConditions}

\* the sequence q in the order perm
Permuted(q, perm) == [i \in 1..Len(q) |-> q[perm[i]]]

\* the rules with the constraints of rule k in reverse order
ConstraintsReversed(conditions, k) ==
    [i \in 1..Len(conditions) |->
        IF i = k
        THEN [j \in 1..Len(conditions[i]) |->
                 conditions[i][Len(conditions[i]) + 1 - j]]
        ELSE conditions[i]]

InitRules ==
    /\ devices = DEVICES
    /\ tables = Tables
    /\ threads = <<>>
    /\ properties_cache = <<>>
    /\ video = Clip("yuv420p", <<None, None>>, <<>>, <<>>, NoExif)
    /\ srt = NoSrt
    /\ call = NoCall
    /\ input \in {[kind |-> "rules", conditions |-> c, stats |-> st] :
                     c \in SeqsUpTo(Rules, MaxRules), st \in Samples}
                \cup {[kind |-> "profiles", profiles |-> ps, stats |-> st] :
                         ps \in RuleSets, st \in Samples}

CheckAllConditions ==
    /\ call.op = "none"
    /\ input.kind = "rules"
    /\ call' = [op |-> "check_all_conditions", outcome |-> "return",
                value |-> check_all_conditions(input.conditions, input.stats)]
    /\ UNCHANGED <<devices, tables, threads, properties_cache, video, srt, input>>

\* check_all_conditions applied to the rules and to the same rules with
\* the constraints of one rule in another order
PermuteConstraints ==
    /\ call.op = "none"
    /\ input.kind = "rules"
    /\ \E k \in 1..Len(input.conditions) :
        call' = [op |-> "permute_constraints",
                 permuted |-> ConstraintsReversed(input.conditions, k),
                 outcome |-> "return",
                 value |-> check_all_conditions(input.conditions, input.stats),
                 permuted_value |->
                     check_all_conditions(
                         ConstraintsReversed(input.conditions, k), input.stats)]
    /\ UNCHANGED <<devices, tables, threads, properties_cache, video, srt, input>>

\* check_all_conditions applied to the rules and to a permutation of them
PermuteRules ==
    /\ call.op = "none"
    /\ input.kind = "rules"
    /\ \E perm \in Permutations(1..Len(input.conditions)) :
        call' = [op |-> "permute_rules",
                 permuted |-> Permuted(input.conditions, perm),
                 outcome |-> "return",
                 value |-> check_all_conditions(input.conditions, input.stats),
                 permuted_value |->
                     check_all_conditions(Permuted(input.conditions, perm),
                                          input.stats)]
    /\ UNCHANGED <<devices, tables, threads, properties_cache, video, srt, input>>

\* the profile loop of detect_profile applied to a rule set and to a
\* permutation of it
PermuteProfiles ==
    /\ call.op = "none"
    /\ input.kind = "profiles"
    /\ \E perm \in Permutations(1..Len(input.profiles)) :
        call' = [op |-> "permute_profiles",
                 permuted |-> Permuted(input.profiles, perm),
                 outcome |-> "return",
                 value |-> ProfilesLoop(input.profiles, input.stats, NORMAL, 1),
                 permuted_value |->
                     ProfilesLoop(Permuted(input.profiles, perm), input.stats,
                                  NORMAL, 1)]
    /\ UNCHANGED <<devices, tables, threads, properties_cache, video, srt, input>>

NextRules ==
    \/ CheckAllConditions
    \/ PermuteConstraints
    \/ PermuteRules
    \/ PermuteProfiles

SpecRules == InitRules /\ [][NextRules]_vars


(***************************************************************************)
(* Binary floating point (Python float, IEEE 754 double)                   *)
(*                                                                         *)
(* The times of find_srt_telemetry are sums and differences of values      *)
(* n/1000, n an integer number of milliseconds.  A double x near n/1000 is *)
(* the pair <<n, d>> with x = n/1000 + d * Unit, Unit = 1/(1000 * 2^62):   *)
(* d is the rounding error, exactly, in units small enough for every       *)
(* double between 2^-10 and 2^6 (times below 64 s).  A double in the       *)
(* binade [2^e, 2^(e+1)) is a multiple of 2^(e-52) = Ulp(e) * Unit.        *)
(***************************************************************************)
RECURSIVE Pow2Mod1000(_)
\* 2^k mod 1000
Pow2Mod1000(k) == IF k = 0 THEN 1 ELSE (2 * Pow2Mod1000(k - 1)) % 1000

\* 2^(e-52) in units
Ulp(e) == 1000 * 2 ^ (e + 10)

RECURSIVE BinadeFrom(_, _)
\* the largest e >= from with 2^e <= n/1000, for n >= 1
BinadeFrom(n, e) ==
    IF e >= 0
    THEN (IF n < 1000 * 2 ^ (e + 1) THEN e ELSE BinadeFrom(n, e + 1))
    ELSE (IF n * 2 ^ (0 - e - 1) < 1000 THEN e ELSE BinadeFrom(n, e + 1))

\* the binade of the real number n/1000 + d * Unit, n >= 1
Binade(n, d) ==
    LET e == BinadeFrom(n, -10)
        power == IF e >= 0 THEN n = 1000 * 2 ^ e ELSE n * 2 ^ (0 - e) = 1000
    IN  IF power /\ d < 0 THEN e - 1 ELSE e

\* (n * 2^62 + d) mod Ulp(e): how far the real number lies above the
\* nearest multiple of 2^(e-52) below it
Residue(n, d, e) ==
    (2 ^ (e + 10) * (((n % 1000) * Pow2Mod1000(52 - e)) % 1000) + d) % Ulp(e)

\* round to nearest, ties to even: the double nearest to n/1000 + d * Unit
RoundAt(n, d, e) ==
    LET rho == Residue(n, d, e)
        odd == Residue(n, d, e + 1) >= Ulp(e)
    IN  IF 2 * rho < Ulp(e) \/ (2 * rho = Ulp(e) /\ ~odd)
        THEN <<n, d - rho>>
        ELSE <<n, d + Ulp(e) - rho>>

Round(n, d) == IF n = 0 THEN <<n, d>> ELSE RoundAt(n, d, Binade(n, d))

\* x < y and x > y for doubles
FloatLess(x, y) == x[1] < y[1] \/ (x[1] = y[1] /\ x[2] < y[2])

FloatGreater(x, y) == FloatLess(y, x)

\* abs(x - y) for doubles
FloatAbsDiff(x, y) ==
    IF FloatLess(x, y)
    THEN Round(y[1] - x[1], y[2] - x[2])
    ELSE Round(x[1] - y[1], x[2] - y[2])

\* int(h)*3600 + int(m)*60 + int(s) + int(ms)/1000 for a time given as
\* whole seconds and milliseconds: the quotient is rounded, then the sum
Seconds(whole, ms) == Round(1000 * whole + ms, Round(ms, 0)[2])

\* the literal 0.20
Window == 200

(***************************************************************************)
(* decimal.Decimal under the default context: precision 28 significant     *)
(* digits, ROUND_HALF_EVEN.  A Decimal is [coef, exp]: the digits of its   *)
(* coefficient and its exponent; the Decimals here are not negative.       *)
(***************************************************************************)
Prec == 28

RECURSIVE StripLeading(_)
\* the digits of int(text): no leading zeros
StripLeading(digits) ==
    IF Len(digits) > 1 /\ Head(digits) = 0 THEN StripLeading(Tail(digits)) ELSE digits

\* decimal.Decimal(text) for a text of digits: exact, whatever its length
Decimal(digits) == [coef |-> StripLeading(digits), exp |-> 0]

RECURSIVE Increment(_)
\* the digits of coefficient + 1
Increment(digits) ==
    IF Len(digits) = 0 THEN <<1>>
    ELSE IF digits[Len(digits)] < 9
    THEN [digits EXCEPT ![Len(digits)] = @ + 1]
    ELSE Append(Increment(SubSeq(digits, 1, Len(digits) - 1)), 0)

\* the coefficient cut to the precision, rounded half to even
RoundHalfEven(x) ==
    LET kept == SubSeq(x.coef, 1, Prec)
        rest == SubSeq(x.coef, Prec + 1, Len(x.coef))
        sticky == \E i \in 2..Len(rest) : rest[i] # 0
        up == \/ rest[1] > 5
              \/ rest[1] = 5 /\ (sticky \/ kept[Prec] % 2 = 1)
        inc == Increment(kept)
        exp == x.exp + Len(rest)
    IN  IF ~up THEN [coef |-> kept, exp |-> exp]
        ELSE IF Len(inc) > Prec
        THEN [coef |-> SubSeq(inc, 1, Prec), exp |-> exp + 1]
        ELSE [coef |-> inc, exp |-> exp]

RECURSIVE Reduce(_)
\* an exact quotient is brought towards the ideal exponent 0
Reduce(x) ==
    IF x.exp < 0 /\ x.coef[Len(x.coef)] = 0
    THEN Reduce([coef |-> IF Len(x.coef) = 1 THEN x.coef
                          ELSE SubSeq(x.coef, 1, Len(x.coef) - 1),
                 exp |-> x.exp + 1])
    ELSE x

\* Decimal / 10^k in the default context
DivideByPow10(x, k) ==
    IF Len(x.coef) <= Prec
    THEN Reduce([coef |-> x.coef, exp |-> x.exp - k])
    ELSE IF \A i \in (Prec + 1)..Len(x.coef) : x.coef[i] = 0
    THEN Reduce(RoundHalfEven([coef |-> x.coef, exp |-> x.exp - k]))
    ELSE RoundHalfEven([coef |-> x.coef, exp |-> x.exp - k])

(***************************************************************************)
(* metadata_processor.py: find_srt_telemetry                               *)
(*                                                                         *)
(* A line of the log is a record: kind "marker" (the line contains         *)
(* ' --> '; wellformed tells whether it starts with HH:MM:SS,mmm, start is *)
(* the time read), "date" (time_re matches), "tele" (contains '[iso';      *)
(* matches tells whether tele_re matches, the fields are its groups) or    *)
(* "text" (anything else).                                                 *)
(***************************************************************************)
\* utils.parse_timestamp, and the same expression of find_srt_telemetry
parse_timestamp(ts) == Seconds(ts.hh * 3600 + ts.mm * 60 + ts.ss, ts.ms)

NoBest == [found |-> FALSE]

RECURSIVE Lookahead(_, _, _, _)
\* for j in range(1, 6): the telemetry line (0: none) and the date line
Lookahead(lines, i, j, date_line) ==
    IF j > 5 \/ i + j > Len(lines)
    THEN [tele_line |-> 0, date_line |-> date_line]
    ELSE IF lines[i + j].kind = "tele"
    THEN [tele_line |-> i + j, date_line |-> date_line]
    ELSE Lookahead(lines, i, j + 1,
                   IF lines[i + j].kind = "date" THEN lines[i + j].text
                   ELSE date_line)

\* best after the lines of one marker are seen
Better(best, i, diff, la) ==
    IF la.tele_line # 0 /\ (~best.found \/ FloatLess(diff, best.diff))
    THEN [found |-> TRUE, diff |-> diff, marker |-> i,
          tele_line |-> la.tele_line, date_line |-> la.date_line]
    ELSE best

RECURSIVE ScanLoop(_, _, _, _)
\* while i < len(lines): the loop over the lines from line i on
ScanLoop(lines, target_seconds, i, best) ==
    IF i > Len(lines)
    THEN [outcome |-> "done", best |-> best]
    ELSE IF lines[i].kind # "marker"
    THEN ScanLoop(lines, target_seconds, i + 1, best)
    ELSE IF ~lines[i].wellformed
    THEN [outcome |-> "raise", best |-> best]
    ELSE ScanLoop(lines, target_seconds, i + 1,
                  Better(best, i,
                         FloatAbsDiff(parse_timestamp(lines[i].start), target_seconds),
                         Lookahead(lines, i, 1, None)))

RECURSIVE DateStr(_)
\* strptime '%Y-%m-%d %H:%M:%S', strftime '%Y:%m:%d %H:%M:%S'
DateStr(date_line) ==
    IF Len(date_line) = 0 THEN ""
    ELSE (IF SubSeq(date_line, 1, 1) = "-" THEN ":" ELSE SubSeq(date_line, 1, 1))
         \o DateStr(SubSeq(date_line, 2, Len(date_line)))

\* the dict built from the groups of tele_re
Telemetry(g, date_line) ==
    [iso |-> g.iso,
     fnumber |-> DivideByPow10(Decimal(g.fnum), 2),
     focal_length |-> DivideByPow10(Decimal(g.focal_len), 1),
     latitude_ref |-> IF g.lat >= 0 THEN "N" ELSE "S",
     longitude_ref |-> IF g.lon >= 0 THEN "E" ELSE "W",
     altitude_ref |-> IF g.abs_alt >= 0 THEN "0" ELSE "1",
     datetime |-> IF date_line = None THEN "utcnow" ELSE date_line,
     date_str |-> IF date_line = None THEN "utcnow" ELSE DateStr(date_line)]

NotFound(best) == [outcome |-> "return", found |-> FALSE, best |-> best]

\* find_srt_telemetry after the loop
Select(lines, scan) ==
    IF scan.outcome = "raise"
    THEN [outcome |-> "raise", error |-> "MetadataError", found |-> FALSE,
          best |-> scan.best]
    ELSE IF ~scan.best.found \/ FloatGreater(scan.best.diff, Round(Window, 0))
    THEN NotFound(scan.best)
    ELSE IF ~lines[scan.best.tele_line].matches
    THEN NotFound(scan.best)
    ELSE [outcome |-> "return", found |-> TRUE, best |-> scan.best,
          value |-> Telemetry(lines[scan.best.tele_line], scan.best.date_line)]

\* MetadataProcessor.find_srt_telemetry; file.suffix is None when no file
\* is at srt_path, file.readable tells whether read_text succeeds
find_srt_telemetry(file, target_timestamp) ==
    IF file.suffix = None
    THEN NotFound(NoBest)
    ELSE IF ~file.readable
    THEN [outcome |-> "raise", error |-> "MetadataError", found |-> FALSE,
          best |-> NoBest]
    ELSE Select(file.lines,
                ScanLoop(file.lines, parse_timestamp(target_timestamp), 1, NoBest))

(***************************************************************************)
(* The logs and target times find_srt_telemetry is applied to              *)
(***************************************************************************)
MaxBlocks == 2

MaxDigits == 29

\* a time of the first minute, from its milliseconds
Time(n) == [hh |-> 0, mm |-> 0, ss |-> n \div 1000, ms |-> n % 1000]

\* start times of markers and target times, in milliseconds
TimePoints == {600, 700, 900, 1000, 10000, 10400}

Targets == {800, 10000, 10150, 10200, 10300}

\* a block of the log: its marker, whether it has a date line, and its
\* telemetry line: "ok", "garbled" (tele_re does not match) or "none"
Block(n, wellformed, date, tele, fnum, focal_len) ==
    [start |-> Time(n), wellformed |-> wellformed, date |-> date, tele |-> tele,
     fnum |-> fnum, focal_len |-> focal_len]

\* the lines of block k of a log: index, marker, date, telemetry, blank
BlockLines(b, k) ==
    <<[kind |-> "text"],
      [kind |-> "marker", wellformed |-> b.wellformed, start |-> b.start]>>
    \o (IF b.date THEN <<[kind |-> "date", text |-> "2024-05-01 10:00:00"]>> ELSE <<>>)
    \o (IF b.tele = "none" THEN <<>>
        ELSE <<[kind |-> "tele", matches |-> b.tele = "ok", iso |-> 100 * k,
                fnum |-> b.fnum, focal_len |-> b.focal_len,
                lat |-> 52, lon |-> -1, abs_alt |-> 120]>>)
    \o <<[kind |-> "text"]>>

RECURSIVE LogLines(_, _)
\* the lines of the blocks bs, the first of which is block k
LogLines(bs, k) ==
    IF Len(bs) = 0 THEN <<>>
    ELSE BlockLines(Head(bs), k) \o LogLines(Tail(bs), k + 1)

\* logs that differ in the times of their markers
TimingLogs ==
    SeqsUpTo({Block(n, TRUE, TRUE, "ok", <<1, 7, 0>>, <<2, 4, 0>>) : n \in TimePoints},
             MaxBlocks)

\* logs that differ in what their blocks hold
ShapeLogs ==
    SeqsUpTo({Block(10000, TRUE, TRUE, "ok", <<1, 7, 0>>, <<2, 4, 0>>),
              Block(10000, FALSE, TRUE, "ok", <<1, 7, 0>>, <<2, 4, 0>>),
              Block(10000, TRUE, FALSE, "ok", <<1, 7, 0>>, <<2, 4, 0>>),
              Block(10000, TRUE, TRUE, "garbled", <<1, 7, 0>>, <<2, 4, 0>>),
              Block(10150, TRUE, FALSE, "none", <<>>, <<>>)},
             MaxBlocks)

\* the digits a, then k digits c, then b
Digits(a, c, k, b) == <<a>> \o [i \in 1..k |-> c] \o <<b>>

DigitStrings ==
    {<<1, 7, 0>>, <<2, 4, 0>>}
    \cup {Digits(a, c, k, b) :
             a \in {0, 1, 9}, c \in {0, 5, 9}, b \in {0, 5, 6},
             k \in {1, MaxDigits - 3, MaxDigits - 2}}

\* logs of one block that differ in the scaled-integer fields
DigitLogs ==
    {<<Block(10000, TRUE, TRUE, "ok", f, <<2, 4, 0>>)>> : f \in DigitStrings}
    \cup {<<Block(10000, TRUE, TRUE, "ok", <<1, 7, 0>>, L)>> : L \in DigitStrings}

TelemetryFiles ==
    {NoSrt, [suffix |-> ".SRT", readable |-> FALSE, content |-> "", lines |-> <<>>]}
    \cup {[suffix |-> ".SRT", readable |-> TRUE, content |-> "",
           lines |-> LogLines(bs, 1)] :
             bs \in TimingLogs \cup ShapeLogs \cup DigitLogs}

InitTelemetry ==
    /\ devices = DEVICES
    /\ tables = Tables
    /\ threads = <<>>
    /\ properties_cache = <<>>
    /\ video = Clip("yuv420p", <<None, None>>, <<>>, <<>>, NoExif)
    /\ srt \in TelemetryFiles
    /\ call = NoCall
    /\ input \in {[kind |-> "telemetry", target |-> Time(n)] : n \in Targets}

FindSrtTelemetry ==
    /\ call.op = "none"
    /\ input.kind = "telemetry"
    /\ LET Act(r) ==
           /\ call' = [op |-> "find_srt_telemetry", outcome |-> r.outcome,
                       found |-> r.found, best |-> r.best,
                       value |-> IF r.found THEN r.value ELSE None]
           /\ UNCHANGED <<devices, tables, threads, properties_cache, video, srt, input>>
       IN  Act(find_srt_telemetry(srt, input.target))

NextTelemetry == FindSrtTelemetry

SpecTelemetry == InitTelemetry /\ [][NextTelemetry]_vars

(***************************************************************************)
(* video_analyzer.py: device detection (exiftool)                          *)
(*                                                                         *)
(* exiftool -j prints a list with one dict for the clip.  tool is the      *)
(* outcome of the run: "ok", "empty" (an empty list) or "fail" (the        *)
(* command or the JSON parse raises).  A value that is no text (JSON null, *)
(* a number) is None.                                                      *)
(***************************************************************************)
\* the chain of tests that sets device_type: "TypeError" when an operand of
\* "in" that is evaluated is no text
DeviceTypeRules(model, encoder) ==
    IF model = None THEN "TypeError"
    ELSE IF Contains(model, "DJI Mini 3 Pro") THEN MINI_3_PRO
    ELSE IF encoder = None THEN "TypeError"
    ELSE IF Contains(encoder, "Mini 3 Pro") THEN MINI_3_PRO
    ELSE IF Contains(model, "Mavic 2 Pro") \/ Contains(encoder, "Mavic 2 Pro")
    THEN MAVIC_2_PRO
    ELSE IF \/ Contains(encoder, "OsmoAction5 Pro")
            \/ Contains(encoder, "Osmo Action 5 Pro")
            \/ Contains(model, "Action 5")
    THEN ACTION_5_PRO
    ELSE None

\* VideoAnalyzer.detect_device_type
detect_device_type(v, tool) ==
    LET Ret(d) == IF d = "TypeError" THEN None ELSE d
    IN  IF tool # "ok" THEN None
        ELSE Ret(DeviceTypeRules(GetOr(v.exif, "Model", ""),
                                 GetOr(v.exif, "Encoder", "")))

\* the end of detect_device_from_video, given device_type and the outcome r
\* of detect_color_profile_from_all_sources
DeviceAndProfile(device_type, r) ==
    IF r.outcome = "raise"
    THEN [value |-> <<None, None>>, ctx |-> r.ctx, device_type |-> device_type,
          events |-> r.events]
    ELSE [value |-> <<device_type, r.value[1]>>, ctx |-> r.ctx,
          device_type |-> device_type, events |-> r.events]

\* detect_device_from_video without the early return for an unknown device
DeviceKnownNoEarlyReturn(device_type, ctx, devs, path, v, file, sampling) ==
    IF device_type = "TypeError"
    THEN [value |-> <<None, None>>, ctx |-> ctx, device_type |-> None,
          events |-> <<>>]
    ELSE DeviceAndProfile(device_type,
             detect_color_profile_from_all_sources(
                 ctx, devs, path, v, file, device_type, v.exif, sampling))

\* detect_device_from_video from the test of device_type on
DeviceKnown(device_type, ctx, devs, path, v, file, sampling) ==
    IF device_type \in {"TypeError", None}
    THEN [value |-> <<None, None>>, ctx |-> ctx, device_type |-> None,
          events |-> <<>>]
    ELSE DeviceAndProfile(device_type,
             detect_color_profile_from_all_sources(
                 ctx, devs, path, v, file, device_type, v.exif, sampling))

\* VideoAnalyzer.detect_device_from_video.  device_type is the local of
\* that name when the call ends, events what profile detection did.
detect_device_from_video(ctx, devs, path, v, file, tool, sampling) ==
    IF tool # "ok"
    THEN [value |-> <<None, None>>, ctx |-> ctx, device_type |-> None,
          events |-> <<>>]
    ELSE DeviceKnown(DeviceTypeRules(GetOr(v.exif, "Model", ""),
                                     GetOr(v.exif, "Encoder", "")),
                     ctx, devs, path, v, file, sampling)

(***************************************************************************)
(* framecut.py: Framecut.process_video                                     *)
(*                                                                         *)
(* env gives the outcomes of what process_video does outside detection:    *)
(* mkdir (creating the output directory), tool (the exiftool run),         *)
(* sampling (the ffmpeg statistics run), extraction (extract_frame) and    *)
(* metadata (looking up and writing the frame's metadata).  One timestamp  *)
(* is extracted (bracketing off).  The result records the exception that   *)
(* leaves the call (value), the one first raised inside it (raised), the   *)
(* device and profile in use, the calls made (events) and the number of    *)
(* frames extracted.                                                       *)
(***************************************************************************)
Raised(raised, value, ctx, device_type, color_profile, events, extracted) ==
    [outcome |-> "raise", value |-> value, raised |-> raised, ctx |-> ctx,
     device_type |-> device_type, color_profile |-> color_profile,
     events |-> events, extracted |-> extracted]

\* the except clauses: DeviceError is re-raised, anything else is replaced
\* by FramecutError
Leaves(raised) == IF raised = "DeviceError" THEN "DeviceError" ELSE "FramecutError"

\* from the frame extraction on
ExtractFrames(device_type, color_profile, ctx, events, env) ==
    IF env.extraction = "fail"
    THEN Raised("ExtractionError", Leaves("ExtractionError"), ctx, device_type,
                color_profile, Append(events, "extract_frame"), 0)
    ELSE IF env.metadata = "fail"
    THEN Raised("MetadataError", Leaves("MetadataError"), ctx, device_type,
                color_profile, events \o <<"extract_frame", "metadata">>, 1)
    ELSE [outcome |-> "return", value |-> "extracted_files", raised |-> None,
          ctx |-> ctx, device_type |-> device_type,
          color_profile |-> color_profile,
          events |-> events \o <<"extract_frame", "metadata">>, extracted |-> 1]

\* the validation of the profile against the device, and what follows
ValidateProfile(device_type, color_profile, ctx, devs, events, env) ==
    IF ~Has(devs, device_type)
    THEN Raised("DeviceError", Leaves("DeviceError"), ctx, device_type,
                color_profile, events, 0)
    ELSE IF \A i \in 1..Len(get_supported_profiles(devs, device_type)) :
                get_supported_profiles(devs, device_type)[i] # color_profile
    THEN Raised("ProfileError", Leaves("ProfileError"), ctx, device_type,
                color_profile, events, 0)
    ELSE ExtractFrames(device_type, color_profile, ctx,
                       Append(events, "get_device_ffmpeg_params"), env)

\* with the device settled: detect the profile if there is none yet
DetectMissingProfile(device_type, color_profile, ctx, devs, path, v, events, env) ==
    LET Then(r) ==
            IF r.outcome = "raise"
            THEN Raised(r.value, Leaves(r.value), r.ctx, device_type,
                        color_profile, Append(events, "detect_color_profile"), 0)
            ELSE ValidateProfile(device_type, r.value, r.ctx, devs,
                                 Append(events, "detect_color_profile"), env)
    IN  IF color_profile \in {None, ""}
        THEN Then(detect_color_profile(ctx, devs, path, v, device_type,
                                       env.sampling))
        ELSE ValidateProfile(device_type, color_profile, ctx, devs, events, env)

\* the test of the auto-detected device
AutoDetected(device_type, color_profile, ctx, devs, path, v, events, env) ==
    IF device_type \in {None, ""}
    THEN Raised("DeviceError", Leaves("DeviceError"), ctx, device_type,
                color_profile, events, 0)
    ELSE DetectMissingProfile(device_type, color_profile, ctx, devs, path, v,
                              events, env)

\* Framecut.process_video
process_video(ctx, devs, path, v, file, device_type, color_profile, env) ==
    LET Both(r) == AutoDetected(r.value[1], r.value[2], r.ctx, devs, path, v,
                                <<"detect_device_from_video">> \o r.events, env)
    IN  IF env.mkdir = "fail"
        THEN Raised("OSError", Leaves("OSError"), ctx, device_type,
                    color_profile, <<>>, 0)
        ELSE IF device_type \notin {None, ""}
        THEN DetectMissingProfile(device_type, color_profile, ctx, devs, path,
                                  v, <<>>, env)
        ELSE IF color_profile \notin {None, ""}
        THEN AutoDetected(detect_device_type(v, env.tool), color_profile, ctx,
                          devs, path, v, <<"detect_device_type">>, env)
        ELSE Both(detect_device_from_video(ctx, devs, path, v, file, env.tool,
                                           env.sampling))

(***************************************************************************)
(* Device detection, device lookup and process_video applied to clips that *)
(* differ in what exiftool reports                                         *)
(***************************************************************************)
\* exiftool dicts: the fields device detection and profile detection read
DeviceExifDicts ==
    {NoExif,
     << <<"Model", "DJI Mini 3 Pro">> >>,
     << <<"Model", "FC3582">>, <<"Encoder", "DJI Mini 3 Pro">> >>,
     << <<"Model", "Mavic 2 Pro Mini 3 Pro">> >>,
     << <<"Model", "L1D-20c">>, <<"Encoder", "DJI Mavic 2 Pro Mini 3 Pro">> >>,
     << <<"Model", "Action 5">>, <<"Encoder", "Mavic 2 Pro">> >>,
     << <<"Model", "Action 5">> >>,
     << <<"Encoder", "DJI OsmoAction5 Pro">>, <<"Comment", "HLG">> >>,
     << <<"Model", "HERO12">>, <<"Encoder", "GoPro AVC">>, <<"Comment", "d-log">> >>,
     << <<"Model", "dji mini 3 pro">> >>,
     << <<"Model", "DJI Mini 3 Pro">>, <<"Comment", None>> >>,
     << <<"Model", "DJI Mini 3 Pro">>, <<"Comment", "D-Cinelike">> >>,
     << <<"Model", "Mavic 2 Pro">>, <<"Encoder", None>> >>,
     << <<"Model", None>>, <<"Encoder", "Mavic 2 Pro">> >>}

DeviceSrtFiles ==
    {NoSrt,
     [suffix |-> ".SRT", readable |-> TRUE, content |-> "[color_md : d_log]",
      lines |-> <<>>],
     [suffix |-> ".srt", readable |-> FALSE, content |-> "hlg", lines |-> <<>>]}

Tools == {"ok", "empty", "fail"}

\* free-text device names
Names ==
    {MINI_3_PRO, MAVIC_2_PRO, ACTION_5_PRO, "dji mini 3 pro", "Mini 3",
     "MAVIC 2 PRO drone", "Pro", "", "osmo", "GoPro", "Osmo Action 5 Pro or Mini 3 Pro",
     "o action"}

\* device and profile arguments of a caller
DeviceChoices == {None, MINI_3_PRO, MAVIC_2_PRO, "GoPro"}

ProfileChoices == {None, NORMAL, D_CINELIKE, HLG, "vivid"}

Envs ==
    [mkdir : {"ok", "fail"}, tool : Tools, sampling : {"ok", "error"},
     extraction : {"ok", "fail"}, metadata : {"ok", "fail"}]

InitDevices ==
    /\ devices = DEVICES
    /\ tables = Tables
    /\ threads = <<>>
    /\ properties_cache = <<>>
    /\ video \in {Clip(f, t, <<45, 80>>, <<25>>, x) :
                     f \in {"yuv420p", "yuv420p10le"},
                     t \in {<<None, None>>, <<"bt2020", "arib-std-b67">>},
                     x \in DeviceExifDicts}
    /\ srt \in DeviceSrtFiles
    /\ input = NoInput
    /\ call = NoCall

DetectDeviceType ==
    /\ call.op = "none"
    /\ \E tool \in Tools :
        call' = [op |-> "detect_device_type", tool |-> tool,
                 outcome |-> "return", value |-> detect_device_type(video, tool)]
    /\ UNCHANGED <<devices, tables, threads, properties_cache, video, srt, input>>

DetectDeviceFromVideo ==
    /\ call.op = "none"
    /\ \E tool \in Tools, nfail \in 0..MaxProbeFailures, sampling \in {"ok", "fail", "error"} :
        LET Act(r) ==
            /\ call' = [op |-> "detect_device_from_video", tool |-> tool,
                        nfail |-> nfail, sampling |-> sampling,
                        outcome |-> "return", value |-> r.value,
                        device_type |-> r.device_type, events |-> r.events]
            /\ properties_cache' = r.ctx.cache
            /\ UNCHANGED <<devices, tables, threads, video, srt, input>>
        IN  Act(detect_device_from_video(Ctx(nfail), devices, VideoPath, video,
                                         srt, tool, sampling))

ProcessVideo ==
    /\ call.op = "none"
    /\ \E device_type \in DeviceChoices, color_profile \in ProfileChoices,
          env \in Envs, nfail \in 0..MaxProbeFailures :
        LET Act(r) ==
            /\ call' = [op |-> "process_video", device_arg |-> device_type,
                        profile_arg |-> color_profile, env |-> env,
                        nfail |-> nfail, outcome |-> r.outcome,
                        value |-> r.value, raised |-> r.raised,
                        device_type |-> r.device_type,
                        color_profile |-> r.color_profile,
                        events |-> r.events, extracted |-> r.extracted]
            /\ properties_cache' = r.ctx.cache
            /\ UNCHANGED <<devices, tables, threads, video, srt, input>>
        IN  Act(process_video(Ctx(nfail), devices, VideoPath, video, srt,
                              device_type, color_profile, env))

FindDeviceByName ==
    /\ call.op = "none"
    /\ \E name \in Names :
        call' = [op |-> "find_device_by_name", name |-> name,
                 outcome |-> "return", value |-> find_device_by_name(devices, name)]
    /\ UNCHANGED <<devices, tables, threads, properties_cache, video, srt, input>>

GetDeviceFfmpegParams ==
    /\ call.op = "none"
    /\ \E device \in DeviceChoices \ {None}, profile \in ProfileChoices \ {None} :
        LET Act(r) ==
            /\ call' = [op |-> "get_device_ffmpeg_params", device |-> device,
                        profile |-> profile, outcome |-> r.outcome,
                        value |-> r.value]
            /\ UNCHANGED <<devices, tables, threads, properties_cache, video, srt, input>>
        IN  Act(get_device_ffmpeg_params(devices, device, profile))

NextDevices ==
    \/ DetectDeviceType
    \/ DetectDeviceFromVideo
    \/ ProcessVideo
    \/ FindDeviceByName
    \/ GetDeviceFfmpegParams

SpecDevices == InitDevices /\ [][NextDevices]_vars

(***************************************************************************)
(* Sequences of get_video_properties calls on one analyzer, for two paths, *)
(* with runs of ffprobe that fail and a clip that is replaced on disk      *)
(* between calls                                                           *)
(***************************************************************************)
OtherPath == "other.MP4"

Paths == {VideoPath, OtherPath}

CacheClips ==
    {Clip(f, t, <<>>, <<>>, NoExif) :
        f \in {"yuv420p", "yuv420p10le"},
        t \in {<<None, None>>, <<"bt2020", "arib-std-b67">>}}

OtherClip == Clip("yuv422p12le", <<"bt709", "bt709">>, <<>>, <<>>, NoExif)

\* the clip ffprobe finds at the path
ClipAt(path) == IF path = VideoPath THEN video ELSE OtherClip

InitCache ==
    /\ devices = DEVICES
    /\ tables = Tables
    /\ threads = <<>>
    /\ properties_cache = <<>>
    /\ video \in CacheClips
    /\ srt = NoSrt
    /\ input = NoInput
    /\ call = NoCall

\* one call of get_video_properties; before is the cache when it starts,
\* found what ffprobe reports for the path if it runs and succeeds
GetVideoProperties ==
    /\ \E path \in Paths, nfail \in 0..MaxProbeFailures :
        LET Act(r) ==
            /\ call' = [op |-> "get_video_properties", path |-> path,
                        nfail |-> nfail, before |-> properties_cache,
                        found |-> ProbedProperties(ClipAt(path)),
                        outcome |-> "return", value |-> r.value,
                        nprobe |-> r.ctx.nprobe]
            /\ properties_cache' = r.ctx.cache
        IN  Act(get_video_properties(Ctx(nfail), path, ClipAt(path)))
    /\ UNCHANGED <<devices, tables, threads, video, srt, input>>

\* the file at VideoPath is replaced by another clip
ReplaceClip ==
    /\ video' \in CacheClips \ {video}
    /\ UNCHANGED <<devices, tables, threads, properties_cache, srt, input, call>>

NextCache ==
    \/ GetVideoProperties
    \/ ReplaceClip

SpecCache == InitCache /\ [][NextCache]_vars

(***************************************************************************)
(* framecut.py: Framecut.process_video with bracketing                     *)
(*                                                                         *)
(* A timestamp HH:MM:SS.mmm and the interval are their milliseconds.       *)
(* strptime puts the timestamp on 1900-01-01, the offsets are added as     *)
(* timedelta, and strftime('%H:%M:%S.%f') prints the time of day of the    *)
(* result and drops its date: the milliseconds modulo one day.             *)
(***************************************************************************)
DayMs == 86400000

MaxBracketFrames == 2

RECURSIVE BeforeLoop(_, _, _, _, _)
\* for i in range(1, bracket_frames + 1): timestamps.insert(0, ...)
BeforeLoop(timestamps, base_time, interval, i, bracket_frames) ==
    IF i > bracket_frames THEN timestamps
    ELSE BeforeLoop(<<(base_time - interval * i) % DayMs>> \o timestamps,
                    base_time, interval, i + 1, bracket_frames)

RECURSIVE AfterLoop(_, _, _, _, _)
\* for i in range(1, bracket_frames + 1): timestamps.append(...)
AfterLoop(timestamps, base_time, interval, i, bracket_frames) ==
    IF i > bracket_frames THEN timestamps
    ELSE AfterLoop(Append(timestamps, (base_time + interval * i) % DayMs),
                   base_time, interval, i + 1, bracket_frames)

\* the timestamps process_video generates
BracketTimestamps(timestamp, bracketing, bracket_frames, bracket_interval) ==
    IF ~bracketing THEN <<timestamp>>
    ELSE AfterLoop(BeforeLoop(<<timestamp>>, timestamp, bracket_interval, 1,
                              bracket_frames),
                   timestamp, bracket_interval, 1, bracket_frames)

\* the extraction loop and what follows it; fail_at is the position of the
\* first timestamp at which extract_frame raises, 0 when it never does
ExtractBracket(timestamps, fail_at, metadata) ==
    IF fail_at \in 1..Len(timestamps)
    THEN [outcome |-> "raise", value |-> Leaves("ExtractionError"),
          timestamps |-> timestamps,
          extracted |-> SubSeq(timestamps, 1, fail_at - 1)]
    ELSE IF metadata = "fail"
    THEN [outcome |-> "raise", value |-> Leaves("MetadataError"),
          timestamps |-> timestamps, extracted |-> timestamps]
    ELSE [outcome |-> "return", value |-> "extracted_files",
          timestamps |-> timestamps, extracted |-> timestamps]

\* process_video called with a device and a profile, so that nothing is
\* detected: validation, timestamps, extraction, metadata
process_video_bracketing(devs, device_type, color_profile, i, fail_at, metadata) ==
    IF ~Has(devs, device_type)
    THEN [outcome |-> "raise", value |-> Leaves("DeviceError"),
          timestamps |-> <<>>, extracted |-> <<>>]
    ELSE IF \A k \in 1..Len(get_supported_profiles(devs, device_type)) :
                get_supported_profiles(devs, device_type)[k] # color_profile
    THEN [outcome |-> "raise", value |-> Leaves("ProfileError"),
          timestamps |-> <<>>, extracted |-> <<>>]
    ELSE ExtractBracket(BracketTimestamps(i.timestamp, i.bracketing,
                                          i.bracket_frames, i.bracket_interval),
                        fail_at, metadata)

\* timestamps and intervals, in milliseconds
BracketTimes == {0, 100, 500, 10000, DayMs - 100}

BracketIntervals == {1, 250, 10000}

InitBracketing ==
    /\ devices = DEVICES
    /\ tables = Tables
    /\ threads = <<>>
    /\ properties_cache = <<>>
    /\ video = Clip("yuv420p", <<None, None>>, <<>>, <<>>, NoExif)
    /\ srt = NoSrt
    /\ call = NoCall
    /\ input \in [kind : {"bracketing"}, timestamp : BracketTimes,
                  bracketing : BOOLEAN, bracket_frames : 0..MaxBracketFrames,
                  bracket_interval : BracketIntervals]

ProcessVideoBracketing ==
    /\ call.op = "none"
    /\ input.kind = "bracketing"
    /\ \E device_type \in {MINI_3_PRO, "GoPro"}, color_profile \in {NORMAL, HLG},
          fail_at \in 0..(2 * input.bracket_frames + 1), metadata \in {"ok", "fail"} :
        LET Act(r) ==
            call' = [op |-> "process_video", device_type |-> device_type,
                     color_profile |-> color_profile, fail_at |-> fail_at,
                     outcome |-> r.outcome, value |-> r.value,
                     timestamps |-> r.timestamps, extracted |-> r.extracted]
        IN  Act(process_video_bracketing(devices, device_type, color_profile,
                                         input, fail_at, metadata))
    /\ UNCHANGED <<devices, tables, threads, properties_cache, video, srt, input>>

NextBracketing == ProcessVideoBracketing

SpecBracketing == InitBracketing /\ [][NextBracketing]_vars

(***************************************************************************)
(* Concurrent calls of get_video_properties on the module singleton        *)
(* video_analyzer.  A thread makes one call; the steps of a call are the   *)
(* look into the cache, the run of ffprobe (the thread blocks in           *)
(* run_command while the others go on) and the store into the cache.       *)
(* pc is the position of the thread, ran whether its ffprobe run succeeded,*)
(* wrote whether it stored an entry.                                       *)
(***************************************************************************)
MaxThreads == 2

Threads == 1..MaxThreads

IdleThread ==
    [pc |-> "idle", path |-> None, properties |-> None, value |-> None,
     ran |-> FALSE, wrote |-> FALSE]

InitThreads ==
    /\ devices = DEVICES
    /\ tables = Tables
    /\ properties_cache = <<>>
    /\ threads = [t \in Threads |-> IdleThread]
    /\ video \in CacheClips
    /\ srt = NoSrt
    /\ input = NoInput
    /\ call = NoCall

\* the call starts: a path with an entry returns it, any other goes on to
\* run ffprobe
LookUp(t) ==
    /\ threads[t].pc = "idle"
    /\ \E path \in Paths :
        threads' = [threads EXCEPT ![t] =
            IF Has(properties_cache, path)
            THEN [@ EXCEPT !.pc = "done", !.path = path,
                           !.value = Get(properties_cache, path)]
            ELSE [@ EXCEPT !.pc = "run", !.path = path]]
    /\ UNCHANGED <<devices, tables, properties_cache, video, srt, input, call>>

\* run_command returns or raises: a failed run returns the defaults
RunProbe(t) ==
    /\ threads[t].pc = "run"
    /\ \E ok \in BOOLEAN :
        threads' = [threads EXCEPT ![t] =
            IF ok
            THEN [@ EXCEPT !.pc = "store", !.ran = TRUE,
                           !.properties = ProbedProperties(ClipAt(threads[t].path))]
            ELSE [@ EXCEPT !.pc = "done", !.value = DefaultProperties]]
    /\ UNCHANGED <<devices, tables, properties_cache, video, srt, input, call>>

\* self._properties_cache[path_str] = properties; return properties
StoreEntry(t) ==
    /\ threads[t].pc = "store"
    /\ properties_cache' = Put(properties_cache, threads[t].path,
                               threads[t].properties)
    /\ threads' = [threads EXCEPT ![t] =
           [@ EXCEPT !.pc = "done", !.wrote = TRUE,
                      !.value = threads[t].properties]]
    /\ UNCHANGED <<devices, tables, video, srt, input, call>>

NextThreads ==
    \/ \E t \in Threads : LookUp(t)
    \/ \E t \in Threads : RunProbe(t)
    \/ \E t \in Threads : StoreEntry(t)

SpecThreads == InitThreads /\ [][NextThreads]_vars

(***************************************************************************)
(* Sequences of detection and lookup calls in one process: a call returns  *)
(* and the next one starts on the catalog and tables the process holds     *)
(***************************************************************************)
CatalogClips ==
    {Clip(f, <<None, None>>, <<45, 80>>, <<25>>, x) :
        f \in {"yuv420p", "yuv420p10le"},
        x \in {NoExif,
               << <<"Model", "DJI Mini 3 Pro">>, <<"Comment", "D-Cinelike">> >>}}

InitCatalog ==
    /\ devices = DEVICES
    /\ tables = Tables
    /\ threads = <<>>
    /\ properties_cache = <<>>
    /\ video \in CatalogClips
    /\ srt \in {NoSrt,
                [suffix |-> ".SRT", readable |-> TRUE,
                 content |-> "[color_md : d_log]", lines |-> <<>>]}
    /\ input = NoInput
    /\ call = NoCall

GetSupportedProfiles ==
    /\ call.op = "none"
    /\ \E device \in DeviceArgs :
        call' = [op |-> "get_supported_profiles", device |-> device,
                 outcome |-> IF Has(devices, device) THEN "return" ELSE "raise",
                 value |-> get_supported_profiles(devices, device)]
    /\ UNCHANGED <<devices, tables, threads, properties_cache, video, srt, input>>

GetDetectionSettings ==
    /\ call.op = "none"
    /\ \E device \in DeviceArgs :
        call' = [op |-> "get_detection_settings", device |-> device,
                 outcome |-> IF Has(devices, device) THEN "return" ELSE "raise",
                 value |-> get_detection_settings(devices, device)]
    /\ UNCHANGED <<devices, tables, threads, properties_cache, video, srt, input>>

GetFfmpegParams ==
    /\ call.op = "none"
    /\ \E profile \in ProfileChoices \ {None} :
        LET Act(r) ==
            /\ call' = [op |-> "get_ffmpeg_params", profile |-> profile,
                        outcome |-> r.outcome, value |-> r.value]
            /\ tables' = r.tables
        IN  Act(get_ffmpeg_params(tables, profile))
    /\ UNCHANGED <<devices, threads, properties_cache, video, srt, input>>

GetDetectionConditions ==
    /\ call.op = "none"
    /\ \E profile \in ProfileChoices \ {None} :
        call' = IF validate_profile(profile) # None
                THEN [op |-> "get_detection_conditions", profile |-> profile,
                      outcome |-> "raise", value |-> "ProfileError"]
                ELSE [op |-> "get_detection_conditions", profile |-> profile,
                      outcome |-> "return",
                      value |-> get_detection_conditions(profile)]
    /\ UNCHANGED <<devices, tables, threads, properties_cache, video, srt, input>>

\* the call has ended and the caller goes on
Return ==
    /\ call.op # "none"
    /\ call' = NoCall
    /\ UNCHANGED <<devices, tables, threads, properties_cache, video, srt, input>>

NextCatalog ==
    \/ DetectProfile
    \/ DetectColorProfileFromAllSources
    \/ DetectDeviceType
    \/ FindDeviceByName
    \/ GetSupportedProfiles
    \/ GetDetectionSettings
    \/ GetDeviceFfmpegParams
    \/ GetFfmpegParams
    \/ GetDetectionConditions
    \/ Return

SpecCatalog == InitCatalog /\ [][NextCatalog]_vars

(***************************************************************************)
(* Statements about profile classification (detect_profile)                *)
(***************************************************************************)
\* a <= v and v <= b for a rational v and bounds in hundredths
AtLeast(v, bound) == bound * v[2] <= v[1] * 100

AtMost(v, bound) == v[1] * 100 <= bound * v[2]

\* every constraint of the rule holds for the statistics of the sample
RuleSatisfied(rule, stats) ==
    \A i \in 1..Len(rule) :
        /\ \E k \in 1..Len(stats) : stats[k][1] = rule[i][1]
        /\ \A k \in 1..Len(stats) :
               stats[k][1] = rule[i][1] =>
                   /\ "min" \in DOMAIN rule[i][2] => AtLeast(stats[k][2], rule[i][2]["min"])
                   /\ "max" \in DOMAIN rule[i][2] => AtMost(stats[k][2], rule[i][2]["max"])

\* the rule set and default of the class the last detect_profile call chose
ClassOf(device_type, bit_depth) ==
    Get(Get(devices, device_type).detection,
        IF bit_depth >= 10 THEN "10bit" ELSE "8bit")

\* the positions, in declared order, of the profiles with a satisfied rule
Satisfied(profiles, stats) ==
    {i \in 1..Len(profiles) :
        \E k \in 1..Len(profiles[i][2]) : RuleSatisfied(profiles[i][2][k], stats)}

\* the last call was detect_profile for a device of the catalog
DetectProfileReturned ==
    /\ call.op = "detect_profile"
    /\ call.outcome = "return"

\* C1: when the class has rules and the container colour tags determine no
\* profile, detect_profile returns the first declared profile that has a
\* rule satisfied by the normalized statistics, and the class default when
\* no profile has one.
C1_FirstSatisfiedProfile ==
    (/\ DetectProfileReturned
     /\ call.profile_from_metadata = None
     /\ Len(ClassOf(call.device_type, call.bit_depth).profiles) > 0)
    => LET class == ClassOf(call.device_type, call.bit_depth)
           hits == Satisfied(class.profiles, call.norm_stats)
       IN  /\ call.has_stats
           /\ hits = {} => call.value = class.default
           /\ hits # {} =>
                  \E i \in hits : /\ \A j \in hits : i <= j
                                  /\ call.value = class.profiles[i][1]

\* C1 witness: the second declared profile of a class is returned because
\* the first has no satisfied rule and it has one
C1_Witness ==
    /\ DetectProfileReturned
    /\ call.profile_from_metadata = None
    /\ call.device_type = ACTION_5_PRO
    /\ call.bit_depth = 10
    /\ Satisfied(ClassOf(ACTION_5_PRO, 10).profiles, call.norm_stats) = {2}
    /\ call.value = D_LOG

\* C2 (as stated): for a class with an empty rule set detect_profile returns
\* the class default for every clip, whatever its container tags.
C2_EmptyRuleSetDefault ==
    (/\ DetectProfileReturned
     /\ Len(ClassOf(call.device_type, call.bit_depth).profiles) = 0)
    => call.value = ClassOf(call.device_type, call.bit_depth).default


(***************************************************************************)
(* Statements about the catalog                                            *)
(***************************************************************************)
\* C4: for every device and both bit-depth classes, every profile that keys
\* the class's rule set, and the class's default, is one of the device's
\* supported profiles.
C4_CatalogConsistency ==
    \A d \in 1..Len(devices) :
        \A c \in {"8bit", "10bit"} :
            LET class == Get(devices[d][2].detection, c)
                supported == get_supported_profiles(devices, devices[d][1])
                listed(p) == \E k \in 1..Len(supported) : supported[k] = p
            IN  /\ listed(class.default)
                /\ \A i \in 1..Len(class.profiles) : listed(class.profiles[i][1])

\* C4 witness: the catalog in use has a class whose rule set names two
\* profiles, and a detection has used it
C4_Witness ==
    /\ DetectProfileReturned
    /\ call.has_stats
    /\ Len(ClassOf(call.device_type, call.bit_depth).profiles) = 2
    /\ Len(get_supported_profiles(devices, call.device_type)) = 3

(***************************************************************************)
(* Statements about detect_color_profile_from_all_sources                  *)
(***************************************************************************)
AllSourcesCalled == call.op = "detect_color_profile_from_all_sources"

Occurs(events, e) == \E i \in 1..Len(events) : events[i] = e

PhaseOrder ==
    <<"metadata_text", "metadata_match", "srt_exists", "srt_open", "srt_match",
      "content_analysis">>

Position(e) == CHOOSE i \in 1..Len(PhaseOrder) : PhaseOrder[i] = e

\* the lowercased text Step 1 searches, for a dict whose four fields are text
TextOf(metadata) ==
    AllText(FieldLower(metadata, "Comment"), FieldLower(metadata, "Category"),
            FieldLower(metadata, "Description"), FieldLower(metadata, "Encoder"))

FieldsAreText(metadata) ==
    \A k \in {"Comment", "Category", "Description", "Encoder"} :
        GetOr(metadata, k, "") # None

\* C5: the phases run in the order metadata text, companion file, content
\* analysis, and the call stops at the first that matches: the companion
\* file is read only if the metadata text matched nothing, detect_color_profile
\* is called only if neither matched, and the profile returned is that of
\* the earliest phase that matched.
C5_PhaseOrder ==
    AllSourcesCalled =>
        /\ \A i, j \in 1..Len(call.events) :
               i < j => Position(call.events[i]) < Position(call.events[j])
        /\ Occurs(call.events, "srt_exists") => ~Occurs(call.events, "metadata_match")
        /\ Occurs(call.events, "srt_open") => ~Occurs(call.events, "metadata_match")
        /\ Occurs(call.events, "content_analysis") =>
               /\ ~Occurs(call.events, "metadata_match")
               /\ ~Occurs(call.events, "srt_match")
        /\ (/\ Len(call.metadata) > 0
            /\ FieldsAreText(call.metadata)
            /\ MetadataTextProfile(TextOf(call.metadata), call.device_type) # None)
           => /\ call.outcome = "return"
              /\ call.value = <<MetadataTextProfile(TextOf(call.metadata),
                                                    call.device_type), "metadata">>
              /\ call.events = <<"metadata_text", "metadata_match">>
        /\ Occurs(call.events, "srt_match") =>
               /\ call.outcome = "return"
               /\ call.value = <<SrtTextProfile(Lower(srt.content)), "SRT">>
               /\ call.events[Len(call.events)] = "srt_match"

\* C5 witness: the metadata text and the companion file both name a profile,
\* and the call returns the one of the metadata text without opening the file
C5_Witness ==
    /\ AllSourcesCalled
    /\ call.outcome = "return"
    /\ call.device_type = MINI_3_PRO
    /\ call.value = <<D_LOG, "metadata">>
    /\ srt.suffix = ".SRT" /\ srt.readable
    /\ SrtTextProfile(Lower(srt.content)) = D_CINELIKE
    /\ ~Occurs(call.events, "srt_exists")

\* C6 (as stated): the call always returns a pair whose tag is "metadata",
\* "SRT", "content analysis" or "default" and names the phase that produced
\* the profile; with "default" the profile is normal.
C6_SourceTag ==
    AllSourcesCalled =>
        /\ call.outcome = "return"
        /\ call.value[2] \in {"metadata", "SRT", "content analysis", "default"}
        /\ call.value[2] = "metadata" =>
               /\ Len(call.metadata) > 0
               /\ call.value[1] = MetadataTextProfile(TextOf(call.metadata),
                                                      call.device_type)
               /\ call.value[1] # None
        /\ call.value[2] = "SRT" =>
               /\ ~Occurs(call.events, "metadata_match")
               /\ srt.suffix \in {".SRT", ".srt"} /\ srt.readable
               /\ call.value[1] = SrtTextProfile(Lower(srt.content))
               /\ call.value[1] # None
        /\ call.value[2] = "content analysis" =>
               /\ ~Occurs(call.events, "metadata_match")
               /\ ~Occurs(call.events, "srt_match")
               /\ Occurs(call.events, "content_analysis")
               /\ call.value[1] \in {get_all_profiles[i] : i \in 1..Len(get_all_profiles)}
        /\ call.value[2] = "default" =>
               /\ call.value[1] = NORMAL
               /\ ~Occurs(call.events, "metadata_match")
               /\ ~Occurs(call.events, "srt_match")


\* C7: for the Mavic 2 Pro neither the metadata-text phase nor
\* detect_profile_from_metadata with a colour-mode tag that contains
\* D-CINELIKE returns d_cinelike.
C7_MavicVeto ==
    /\ (/\ AllSourcesCalled
        /\ call.device_type = MAVIC_2_PRO
        /\ call.outcome = "return"
        /\ call.value[2] = "metadata")
       => call.value[1] # D_CINELIKE
    /\ (/\ call.op = "detect_profile_from_metadata"
        /\ call.device_type = MAVIC_2_PRO
        /\ call.metadata.dji_color_mode # None
        /\ Contains(Upper(call.metadata.dji_color_mode), "D-CINELIKE"))
       => call.value # D_CINELIKE

\* C7 witness: the Mavic 2 Pro with metadata text that contains d-cinelike
C7_Witness ==
    /\ AllSourcesCalled
    /\ call.device_type = MAVIC_2_PRO
    /\ call.outcome = "return"
    /\ Len(call.metadata) > 0
    /\ Contains(TextOf(call.metadata), "d-cinelike")
    /\ Occurs(call.events, "metadata_text")
    /\ ~Occurs(call.events, "metadata_match")

TelemetryCalled == call.op = "find_srt_telemetry"

\* a time in milliseconds, exactly
Millis(ts) == ((ts.hh * 60 + ts.mm) * 60 + ts.ss) * 1000 + ts.ms

\* the markers of the log that have a telemetry line
Candidates(lines) ==
    {i \in 1..Len(lines) :
        /\ lines[i].kind = "marker"
        /\ lines[i].wellformed
        /\ Lookahead(lines, i, 1, None).tele_line # 0}

\* the distance in milliseconds between marker i and the target
Distance(lines, i, target) ==
    IF Millis(lines[i].start) >= Millis(target)
    THEN Millis(lines[i].start) - Millis(target)
    ELSE Millis(target) - Millis(lines[i].start)

\* the first of the markers nearest to the target
Nearest(lines, target) ==
    CHOOSE i \in Candidates(lines) :
        \A j \in Candidates(lines) :
            \/ Distance(lines, i, target) < Distance(lines, j, target)
            \/ Distance(lines, i, target) = Distance(lines, j, target) /\ i <= j

\* C8 (as stated): the lookup selects the marker with a telemetry line whose
\* start is nearest to the target, the first one on equal differences, and
\* returns its record when the difference is at most 0.20 s (0.20 s itself
\* included), not found when the smallest difference is larger.
C8_NearestWithinTolerance ==
    (TelemetryCalled /\ call.outcome = "return") =>
        IF \A i \in Candidates(srt.lines) :
               Distance(srt.lines, i, input.target) > Window
        THEN ~call.found
        ELSE LET tele == srt.lines[Lookahead(srt.lines,
                                             Nearest(srt.lines, input.target), 1,
                                             None).tele_line]
             IN  IF tele.matches
                 THEN call.found /\ call.value.iso = tele.iso
                 ELSE ~call.found

\* C9 (as stated): the lookup raises only when reading the log fails; every
\* log that can be read gives a record or not found, and a missing file
\* gives not found.
C9_RaisesOnlyOnReadFailure ==
    TelemetryCalled =>
        /\ call.outcome = "raise" => (srt.suffix # None /\ ~srt.readable)
        /\ srt.suffix = None => (call.outcome = "return" /\ ~call.found)

RECURSIVE Canonical(_)
\* the same number with no trailing zero in its coefficient
Canonical(x) ==
    IF Len(x.coef) = 1 /\ x.coef[1] = 0 THEN [coef |-> x.coef, exp |-> 0]
    ELSE IF x.coef[Len(x.coef)] = 0
    THEN Canonical([coef |-> SubSeq(x.coef, 1, Len(x.coef) - 1), exp |-> x.exp + 1])
    ELSE x

\* 10^k * x = y as numbers
ScaledEquals(x, k, y) ==
    Canonical([coef |-> x.coef, exp |-> x.exp + k]) = Canonical(y)

\* C10 (as stated): for every digit string f in fnum the returned f-number
\* x has 100 * x = f exactly, and for every digit string L in focal_len the
\* returned focal length y has 10 * y = L exactly.
C10_ExactConversion ==
    (TelemetryCalled /\ call.found) =>
        /\ ScaledEquals(call.value.fnumber, 2,
                        Decimal(srt.lines[call.best.tele_line].fnum))
        /\ ScaledEquals(call.value.focal_length, 1,
                        Decimal(srt.lines[call.best.tele_line].focal_len))

(***************************************************************************)
(* Statements about device identity                                        *)
(***************************************************************************)
\* the device the substring rules give for a model and an encoder text
IdentityOf(model, encoder) ==
    IF Contains(model, "DJI Mini 3 Pro") \/ Contains(encoder, "Mini 3 Pro")
    THEN MINI_3_PRO
    ELSE IF Contains(model, "Mavic 2 Pro") \/ Contains(encoder, "Mavic 2 Pro")
    THEN MAVIC_2_PRO
    ELSE IF \/ Contains(encoder, "OsmoAction5 Pro")
            \/ Contains(encoder, "Osmo Action 5 Pro")
            \/ Contains(model, "Action 5")
    THEN ACTION_5_PRO
    ELSE None

\* the device a device-detection call has returned
DeviceReturned ==
    IF call.op = "detect_device_type" THEN call.value ELSE call.value[1]

\* C11: the device that detect_device_type and detect_device_from_video
\* return depends only on the model and encoder strings of the container
\* metadata: it is the one the substring rules give in their fixed
\* precedence (Mini 3 Pro, then Mavic 2 Pro, then Osmo Action 5 Pro), and
\* it is none when the rules give none or when there is no metadata.
C11_DeviceIdentity ==
    call.op \in {"detect_device_type", "detect_device_from_video"} =>
        LET model == GetOr(video.exif, "Model", "")
            encoder == GetOr(video.exif, "Encoder", "")
        IN  /\ (call.tool = "ok" /\ model # None /\ encoder # None)
                => DeviceReturned = IdentityOf(model, encoder)
            /\ call.tool # "ok" => DeviceReturned = None

\* the container metadata names no device: exiftool gave no metadata, or
\* the substring rules match neither the model nor the encoder text
NotRecognized(tool) ==
    \/ tool # "ok"
    \/ /\ GetOr(video.exif, "Model", "") # None
       /\ GetOr(video.exif, "Encoder", "") # None
       /\ IdentityOf(GetOr(video.exif, "Model", ""),
                     GetOr(video.exif, "Encoder", "")) = None

Offered(d, p) ==
    \E i \in 1..Len(Get(devices, d).profiles) : Get(devices, d).profiles[i][1] = p

\* C13: a profile that the device in use does not offer makes process_video
\* fail with ProfileError, a device that is not in the catalog makes it
\* fail with DeviceError, as both make get_device_ffmpeg_params fail; no
\* frame is extracted in either case.
C13_CatalogErrorsSurface ==
    /\ (call.op = "process_video" /\ call.env.mkdir = "ok"
        /\ call.device_type \notin {None, ""})
        => /\ ~Has(devices, call.device_type)
               => /\ call.outcome = "raise" /\ call.value = "DeviceError"
                  /\ call.extracted = 0
           /\ (Has(devices, call.device_type)
               /\ ~Offered(call.device_type, call.color_profile))
               => /\ call.outcome = "raise" /\ call.value = "ProfileError"
                  /\ call.extracted = 0
    /\ call.op = "get_device_ffmpeg_params"
        => /\ ~Has(devices, call.device)
               => call.outcome = "raise" /\ call.value = "DeviceError"
           /\ (Has(devices, call.device) /\ ~Offered(call.device, call.profile))
               => call.outcome = "raise" /\ call.value = "ProfileError"

(***************************************************************************)
(* Statements about what profile detection lets out                        *)
(***************************************************************************)
IsProfile(p) == \E i \in 1..Len(get_all_profiles) : get_all_profiles[i] = p

EmptyText(metadata) ==
    \A k \in {"Comment", "Category", "Description", "Encoder"} :
        GetOr(metadata, k, "") = ""

\* C15: detect_color_profile_from_all_sources raises nothing and returns a
\* (profile, source tag) pair for every metadata dictionary, a null or
\* non-text field included, with or without a companion file and whatever
\* the tools do; with empty text fields and no companion file it goes on to
\* the content-analysis phase.
C15_DetectionNeverRaises ==
    AllSourcesCalled =>
        /\ call.outcome = "return"
        /\ IsProfile(call.value[1])
        /\ call.value[2] \in {"metadata", "SRT", "content analysis", "default"}
        /\ (EmptyText(call.metadata) /\ srt = NoSrt /\ call.device_type # None)
            => /\ Occurs(call.events, "content_analysis")
               /\ call.value[2] = "content analysis"

(***************************************************************************)
(* Statements about the lookup of a device by name                         *)
(***************************************************************************)
\* the catalog positions whose model name contains the query or is
\* contained in it, letter case aside
NameHits(query) ==
    {i \in 1..Len(devices) :
        \/ Contains(Lower(devices[i][2].model), Lower(query))
        \/ Contains(Lower(query), Lower(devices[i][2].model))}

\* C16: find_device_by_name raises nothing and returns no match or a key of
\* the catalog: a query that is a catalog identifier returns it, any other
\* query returns the first device in catalog order whose model name
\* contains the query or is contained in it, compared case-insensitively,
\* and no match when there is no such device.
C16_FuzzyLookup ==
    call.op = "find_device_by_name" =>
        /\ call.outcome = "return"
        /\ call.value = None \/ Has(devices, call.value)
        /\ Has(devices, call.name) => call.value = call.name
        /\ (~Has(devices, call.name) /\ NameHits(call.name) = {})
            => call.value = None
        /\ (~Has(devices, call.name) /\ NameHits(call.name) # {})
            => \E i \in NameHits(call.name) :
                   /\ \A k \in NameHits(call.name) : i <= k
                   /\ call.value = devices[i][1]

\* C16 witness: a query that contains the model names of the third and of
\* the first device of the catalog has returned the first
C16_Witness ==
    /\ call.op = "find_device_by_name"
    /\ call.name = "Osmo Action 5 Pro or Mini 3 Pro"
    /\ NameHits(call.name) = {1, 3}
    /\ call.value = MINI_3_PRO

(***************************************************************************)
(* Statements about the order of rules                                     *)
(***************************************************************************)
\* C17: the result of check_all_conditions is the same for the rules with
\* the constraints of a rule in another order and for the rules in another
\* order; for the profiles of a rule set in another order the profile loop
\* of detect_profile returns the first profile, in that order, that has a
\* satisfied rule (the default if there is none), so the result changes
\* only between two profiles that both have a satisfied rule.
C17_OrderDeterminism ==
    /\ call.op \in {"permute_constraints", "permute_rules"}
        => call.permuted_value = call.value
    /\ call.op = "permute_profiles"
        => LET hits == Satisfied(call.permuted, input.stats)
               named(p) == {i \in 1..Len(call.permuted) : call.permuted[i][1] = p}
           IN  /\ hits = {} => call.permuted_value = NORMAL
               /\ hits # {} =>
                      \E i \in hits : /\ \A k \in hits : i <= k
                                      /\ call.permuted_value = call.permuted[i][1]
               /\ call.permuted_value # call.value =>
                      /\ named(call.value) \cap hits # {}
                      /\ named(call.permuted_value) \cap hits # {}

\* C17 witness: two profiles of the rule set have a satisfied rule and the
\* permuted order has returned another of them than the declared order
C17_Witness ==
    /\ call.op = "permute_profiles"
    /\ Cardinality(Satisfied(input.profiles, input.stats)) = 2
    /\ call.value = HLG
    /\ call.permuted_value = D_CINELIKE

(***************************************************************************)
(* Statements about the cache of container inspections                     *)
(***************************************************************************)
\* C18: over any sequence of get_video_properties calls an entry of the
\* cache, once stored for a path, is never overwritten or removed, and a
\* call for a path that has an entry returns the stored result without
\* running the inspection tool.
C18_CacheWriteOnce ==
    /\ [][\A p \in Paths :
             Has(properties_cache, p) =>
                 /\ Has(properties_cache', p)
                 /\ Get(properties_cache', p) = Get(properties_cache, p)]_vars
    /\ []((call.op = "get_video_properties" /\ Has(call.before, call.path))
            => /\ call.value = Get(call.before, call.path)
               /\ call.nprobe = 0
               /\ properties_cache = call.before)

\* C18 witness: a call for a path with an entry has returned the stored
\* result although the clip on disk has been replaced since and the tool
\* would have failed
C18_Witness ==
    /\ call.op = "get_video_properties"
    /\ call.path = VideoPath
    /\ Has(call.before, VideoPath)
    /\ call.nfail = 1
    /\ call.value = Get(call.before, VideoPath)
    /\ call.value # call.found
    /\ Has(properties_cache, OtherPath)

(***************************************************************************)
(* Statements about the catalogs                                           *)
(***************************************************************************)
\* C19: after any sequence of detection and lookup calls the device
\* catalog with its rule lists and parameter lists, the base parameter list
\* and the per-profile parameter table equal their values at start-up.
C19_CatalogsReadOnly ==
    /\ devices = DEVICES
    /\ tables.base = BASE_FFMPEG_PARAMS
    /\ tables.profile = PROFILE_PARAMS

\* C19 witness: after an inspection of the clip, get_ffmpeg_params has
\* returned the base list extended by the parameters of HLG
C19_Witness ==
    /\ call.op = "get_ffmpeg_params"
    /\ call.profile = HLG
    /\ call.value = BASE_FFMPEG_PARAMS \o Get(PROFILE_PARAMS, HLG)
    /\ Has(properties_cache, VideoPath)

(***************************************************************************)
(* Statements about failures reading a companion file                      *)
(***************************************************************************)
\* C20 (as stated): a companion file that was found to exist and cannot be
\* read makes the call raise: find_srt_telemetry raises MetadataError, and
\* detect_color_profile_from_all_sources raises when the file it opens in
\* its companion-file phase cannot be read.
C20_ReadFailureIsHard ==
    /\ (TelemetryCalled /\ srt.suffix # None /\ ~srt.readable)
           => call.outcome = "raise"
    /\ (AllSourcesCalled /\ Occurs(call.events, "srt_open") /\ ~srt.readable)
           => call.outcome = "raise"

(***************************************************************************)
(* Statements about the telemetry record that is selected                  *)
(***************************************************************************)
\* the markers whose telemetry line the record pattern parses
Parsable(lines) ==
    {i \in Candidates(lines) : lines[Lookahead(lines, i, 1, None).tele_line].matches}

\* C21 (as stated): the lookup returns not found exactly when no marker has
\* a parsable telemetry record or the smallest difference among the markers
\* that have one exceeds the tolerance; a marker within the tolerance whose
\* telemetry line parses makes the lookup return a record.
C21_NotFoundExactly ==
    (TelemetryCalled /\ call.outcome = "return") =>
        (~call.found <=>
            \A i \in Parsable(srt.lines) :
                Distance(srt.lines, i, input.target) > Window)

(***************************************************************************)
(* Statements about the companion file of profile detection                *)
(***************************************************************************)
\* the call opened the companion file and read its text
SrtRead ==
    /\ AllSourcesCalled
    /\ call.outcome = "return"
    /\ Occurs(call.events, "srt_open")
    /\ srt.readable

\* C22 (as stated): for a device other than DJI Mavic 2 Pro the companion-file
\* phase selects from the text of the file the profile the metadata-text
\* matcher selects from the same text, and matches nothing when that matcher
\* matches nothing.
C22_SameTokens ==
    (SrtRead /\ call.device_type # MAVIC_2_PRO) =>
        LET p == MetadataTextProfile(Lower(srt.content), call.device_type)
        IN  IF p # None
            THEN call.value = <<p, "SRT">>
            ELSE ~Occurs(call.events, "srt_match")

\* C23 (as stated): a companion file whose extension is 'srt' in any letter
\* case is found by the companion-file phase, which then opens it, and by
\* find_matching_srt; both report no file only when there is none.
C23_ExtensionAnyCase ==
    /\ (AllSourcesCalled /\ Occurs(call.events, "srt_exists"))
           => (Occurs(call.events, "srt_open") <=> srt.suffix # None)
    /\ call.op = "find_matching_srt"
           => (call.value # None <=> srt.suffix # None)

(***************************************************************************)
(* Statements about the frame statistics                                   *)
(***************************************************************************)
StatsCalled == call.op = "get_video_stats"

\* the sampling run gave no luminance sample: it failed, wrote no stats
\* file, or wrote one without a YAVG line
NoLumaSamples ==
    \/ call.sampling \in {"fail", "empty"}
    \/ call.sampling = "ok" /\ Len(video.yavg_values) = 0

\* the bit-depth maximum of the pixel format the call worked with
MaxSeen == MaxValue(get_bit_depth(call.pix_fmt))

\* C24 (as stated): when the sampling run fails, writes no stats file or
\* gives no luminance sample, get_video_stats returns, and what it returns
\* is the one default sample (p90y 0.70 and yavg 0.50 of the bit-depth
\* maximum, satavg 0.30); with luminance samples and no saturation sample
\* satavg is 0.30.
C24_SameDefaults ==
    StatsCalled =>
        /\ NoLumaSamples =>
               /\ call.outcome = "return"
               /\ call.value = DefaultStats(MaxSeen)
        /\ (call.sampling = "ok" /\ Len(video.yavg_values) > 0
                /\ Len(video.satavg_values) = 0)
               => (call.outcome = "return" /\ call.value.satavg = <<3, 10>>)

(***************************************************************************)
(* Statements about the inspection of the container                        *)
(***************************************************************************)
\* C25 (as stated): one call of detect_profile, with its calls of
\* get_pixel_format, get_video_metadata and get_video_stats, runs the
\* inspection tool at most once for the file, whether the run succeeds or
\* fails.
C25_OneInspectionPerCall ==
    call.op = "detect_profile" => call.nprobe <= 1

(***************************************************************************)
(* Statements about concurrent calls                                       *)
(***************************************************************************)
\* the threads whose call is for path p
CallsFor(p) == {t \in Threads : threads[t].path = p}

\* C26 (as stated): in every interleaving of concurrent get_video_properties
\* calls, the entry of a path is written at most once, ffprobe succeeds at
\* most once per path, and all finished calls for one path have returned the
\* same result.
C26_NoLockingNeeded ==
    \A p \in Paths :
        /\ Cardinality({t \in CallsFor(p) : threads[t].wrote}) <= 1
        /\ Cardinality({t \in CallsFor(p) : threads[t].ran}) <= 1
        /\ \A t, u \in CallsFor(p) :
               (threads[t].pc = "done" /\ threads[u].pc = "done")
                   => threads[t].value = threads[u].value

(***************************************************************************)
(* Statements about the profiles detection can return                      *)
(***************************************************************************)
\* C27 (as stated): for a device of the catalog the profile returned by
\* detect_color_profile_from_all_sources, whichever phase gave it, is one of
\* the profiles the device offers, so process_video accepts it.
C27_DetectedProfileOffered ==
    (AllSourcesCalled /\ call.outcome = "return" /\ Has(devices, call.device_type))
        => Offered(call.device_type, call.value[1])

(***************************************************************************)
(* Statements about device detection and the profile phases                *)
(***************************************************************************)
\* C28 (as stated): on the same container metadata detect_device_from_video
\* returns the device detect_device_type returns, whatever the profile
\* phases that follow the recognition of the device do.
C28_DeviceIndependentOfProfile ==
    call.op = "detect_device_from_video"
        => call.value[1] = detect_device_type(video, call.tool)

(***************************************************************************)
(* Statements about the block of a telemetry line                          *)
(***************************************************************************)
\* C29 (as stated): the telemetry line paired with the selected marker lies
\* after that marker and before the next time-range marker of the log.
C29_OwnBlock ==
    (TelemetryCalled /\ call.best.found) =>
        /\ call.best.marker < call.best.tele_line
        /\ \A k \in (call.best.marker + 1)..(call.best.tele_line - 1) :
               srt.lines[k].kind # "marker"

(***************************************************************************)
(* Statements about bracketing                                             *)
(***************************************************************************)
\* C30 (as stated): with bracketing, n bracket frames and a positive
\* interval d, process_video extracts 2n+1 frames, the k-th at
\* t + (k - n - 1) * d, in strictly increasing order, none before
\* 00:00:00.000 and none wrapped around the end of the day.
C30_BracketAroundTimestamp ==
    (call.op = "process_video" /\ call.outcome = "return" /\ input.bracketing) =>
        LET n == input.bracket_frames
        IN  /\ Len(call.extracted) = 2 * n + 1
            /\ \A k \in 1..Len(call.extracted) :
                   call.extracted[k] =
                       input.timestamp + (k - n - 1) * input.bracket_interval
            /\ \A k \in 1..(Len(call.extracted) - 1) :
                   call.extracted[k] < call.extracted[k + 1]
            /\ call.extracted[1] >= 0
            /\ call.extracted[Len(call.extracted)]
                   <= input.timestamp + n * input.bracket_interval

====
